---- MODULE Spec2Model ----
(***************************************************************************)
(* Order-lifecycle engine of the indexer: the event ingestors              *)
(* (wyvern-v2.3 and erc1155 syncCallback / fixCallback), order intake      *)
(* (saveOrders), the maker-update worker and the job queues, as a state    *)
(* machine over the database tables and the queues.                        *)
(*                                                                         *)
(* The old column "status" ('valid', 'no-balance', ...) and the newer      *)
(* column "fillability_status" ('fillable', 'no-balance', ...) are one     *)
(* field here, status, with 'valid' written "fillable".                    *)
(***************************************************************************)
EXTENDS Integers, Sequences, FiniteSets, TLC

VARIABLES
    orders,               \* table orders: hash -> row (DOMAIN = saved hashes)
    cancel_events,        \* table cancel_events: set of rows
    fill_events,          \* table fill_events: set of rows
    bulk_cancel_events,   \* table bulk_cancel_events: set of rows
    nft_balances,         \* table nft_balances: <<owner, tokenId>> -> amount (DOMAIN = rows)
    nft_approval_events,  \* table nft_approval_events: set of rows
    nft_transfer_events,  \* table nft_transfer_events: set of rows
    ft_transfer_events,   \* table ft_transfer_events: set of rows
    ft_balances,          \* table ft_balances: <<owner, contract>> -> amount (DOMAIN = rows)
    ft_approvals,         \* table ft_approvals: <<owner, spender>> -> value (DOMAIN = rows)
    byHashQueue,          \* queue of hash-update jobs: [waiting, held]
    byMakerQueue,         \* queue of maker-update jobs: [waiting, held]
    fillsQueue,           \* queue of fill-handle jobs: [waiting, held]
    active,               \* maker-update jobs between their read and their write,
                          \* each with what it read
    tokens,               \* table tokens: set of rows [contract, token_id, collection_id]
    attributes,           \* table attributes: set of rows
    token_sets,           \* table token_sets: set of rows, one per id
    token_sets_tokens,    \* table token_sets_tokens: set of rows
    attemptsMade,         \* maker-update jobs an attempt of which failed: job id ->
                          \* [made, delay], the attempts made and the delay before the
                          \* next one (DOMAIN = the ids of those jobs)
    syncing,              \* the syncCallbacks under way: [contract, logs, backfill, step],
                          \* step the call the callback awaits next
    wyvern_proxies,       \* table wyvern_proxies: owner -> proxy
    getProxyCalls,        \* the calls of getProxy: [id, owner, step, proxy]
    lastCall,             \* the last call from outside (event source, API) and how it ended
    delivered             \* the logs the event source handed over: <<log, backfill, threw>>
                          \* of every log handed to a syncCallback, less those of the
                          \* blocks a fixCallback took back

vars == <<orders, cancel_events, fill_events, bulk_cancel_events, nft_balances,
          nft_approval_events, nft_transfer_events, ft_transfer_events, ft_balances,
          ft_approvals, byHashQueue, byMakerQueue, fillsQueue, active, tokens,
          attributes, token_sets, token_sets_tokens, attemptsMade, syncing,
          wyvern_proxies, getProxyCalls, lastCall,
          delivered>>

wyvernEvents == <<cancel_events, fill_events, bulk_cancel_events>>
nftTables == <<nft_balances, nft_approval_events, nft_transfer_events>>
ftTables == <<ft_transfer_events, ft_balances, ft_approvals>>
tokenTables == <<tokens, attributes, token_sets, token_sets_tokens>>
history == <<lastCall, delivered>>
proxies == <<wyvern_proxies, getProxyCalls>>

(***************************************************************************)
(* Bounds and the catalogue of inputs                                      *)
(***************************************************************************)
MaxNonce == 2       \* NonceIncremented carries newNonce in 1..MaxNonce
MaxBatch == 2       \* logs per syncCallback batch, orders per saveOrders call

NoField == ""
AddressZero == "0x0"

Makers == {"m1", "m2"}
Hashes == {"h1", "h2", "h3"}
NftContract == "nft"
Weth == "weth"
\* another ERC20 token the indexer follows
Dai == "dai"

\* the token an order of the catalogue pays in
PaymentToken(h) == Weth

\* timestamps are seconds; Infinity stands for the timestamp 'infinity'
Infinity == 999

\* trigger.txTimestamp of the job a log gives rise to, by the context of the log
TxTimestamp(context) ==
    CASE context \in {"y1-0", "z1-0"} -> 100
      [] context \in {"y2-1", "z2-1"} -> 101
      [] context \in {"y3-2", "z3-2"} -> 102
      [] context \in {"y4-3", "z4-3"} -> 103
      [] context \in {"y5-4"} -> 104
      [] OTHER -> 105

\* The signed orders that may be submitted; the hash fixes the content.
OrderParams(h) ==
    CASE h = "h1" -> [side |-> "sell", maker |-> "m1", nonce |-> 0, tokenId |-> "t1",
                      basePrice |-> 2, takerRelayerFee |-> 0, expirationTime |-> 900]
      [] h = "h2" -> [side |-> "buy",  maker |-> "m1", nonce |-> 1, tokenId |-> "t2",
                      basePrice |-> 2, takerRelayerFee |-> 250, expirationTime |-> 0]
      [] h = "h3" -> [side |-> "sell", maker |-> "m2", nonce |-> 0, tokenId |-> "t2",
                      basePrice |-> 1, takerRelayerFee |-> 0, expirationTime |-> 0]
      [] OTHER    -> [side |-> "buy",  maker |-> "m1", nonce |-> 0, tokenId |-> NoField,
                      basePrice |-> 1, takerRelayerFee |-> 0, expirationTime |-> 0]

(***************************************************************************)
(* Token sets                                                              *)
(***************************************************************************)
\* `token:${contract}:${tokenId}`, `contract:${contract}`, `list:${merkleRoot}`
TokenSetId(kind, contract, tokenId, root) ==
    [kind |-> kind, contract |-> contract, tokenId |-> tokenId, root |-> root]

\* no token set: tokenSetInfo undefined, collections.token_set_id null
NoTokenSet == TokenSetId("none", NoField, NoField, {})

\* generateMerkleTree(tokenIds).getHexRoot(): the root commits to the token ids
\* whatever their order (the leaves are sorted), and to nothing else
MerkleRoot(tokenIds) == {<<"leaf", t>> : t \in tokenIds}

\* table collections: c1 is the collection of the NFT contract, c2 has no token set
Collections ==
    {[id |-> "c1", token_set_id |-> TokenSetId("contract", NftContract, NoField, {})],
     [id |-> "c2", token_set_id |-> NoTokenSet]}

\* orderInfo.attribute; NoAttribute when the order comes without one
Attribute(collection) == [collection |-> collection, key |-> "k", value |-> "v"]
NoAttribute == [collection |-> NoField, key |-> NoField, value |-> NoField]

\* extractOrderMetadata(order): kind and data of the order, by its hash
OrderMetadata(h) ==
    CASE h = "a1" -> [kind |-> "attribute", contract |-> NftContract, tokenId |-> NoField,
                      merkleRoot |-> MerkleRoot({"t1"})]
      [] h = "a2" -> [kind |-> "attribute", contract |-> NftContract, tokenId |-> NoField,
                      merkleRoot |-> MerkleRoot({"t1", "t2"})]
      [] h = "w1" -> [kind |-> "collection", contract |-> NftContract, tokenId |-> NoField,
                      merkleRoot |-> {}]
      [] OTHER    -> [kind |-> "token", contract |-> NftContract,
                      tokenId |-> OrderParams(h).tokenId, merkleRoot |-> {}]

\* select contract, token_id from attributes where collection_id, key, value
AttributeTokens(attribute) ==
    {a \in attributes : /\ a.collection_id = attribute.collection
                        /\ a.key = attribute.key
                        /\ a.value = attribute.value}

TokenSetRow(id, collection, key, value) ==
    [id |-> id, collection_id |-> collection, attribute_key |-> key,
     attribute_value |-> value]

MemberRow(id, contract, tokenId) ==
    [token_set_id |-> id, contract |-> contract, token_id |-> tokenId]

\* no token set, for an order that is refused
NoSet == [id |-> NoTokenSet, row |-> TokenSetRow(NoTokenSet, NoField, NoField, NoField),
          members |-> {}]

\* case "token": the set of the one token
TokenCase(meta) ==
    LET id == TokenSetId("token", meta.contract, meta.tokenId, {}) IN
    [id |-> id, row |-> TokenSetRow(id, NoField, NoField, NoField),
     members |-> {MemberRow(id, meta.contract, meta.tokenId)}]

\* case "collection": the set of the collection whose token set is the contract
CollectionCase(meta) ==
    LET tokenSetId == TokenSetId("contract", meta.contract, NoField, {})
        found == {c \in Collections : c.token_set_id = tokenSetId}
    IN IF found = {} THEN NoSet
       ELSE LET c == CHOOSE x \in found : TRUE IN
            [id |-> tokenSetId, row |-> TokenSetRow(tokenSetId, c.id, NoField, NoField),
             members |-> {MemberRow(tokenSetId, t.contract, t.token_id) :
                             t \in {x \in tokens : x.collection_id = c.id}}]

\* case "attribute" without the comparison of the Merkle roots
AttributeCaseAnyRoot(meta, attribute) ==
    LET found == {c \in Collections : c.id = attribute.collection}
        matching == AttributeTokens(attribute)
        id == TokenSetId("list", NoField, NoField, meta.merkleRoot)
    IN IF attribute = NoAttribute THEN NoSet
       ELSE IF found = {} \/ \A c \in found : c.token_set_id = NoTokenSet THEN NoSet
       ELSE IF matching = {} THEN NoSet
       ELSE IF \E a \in matching : a.contract # meta.contract THEN NoSet
       ELSE [id |-> id,
             row |-> TokenSetRow(id, attribute.collection, attribute.key, attribute.value),
             members |-> {MemberRow(id, a.contract, a.token_id) : a \in matching}]

\* case "attribute": the tokens of the attribute, refused unless they are all on
\* the contract of the order and their Merkle root is the root of the order
AttributeCase(meta, attribute) ==
    LET found == {c \in Collections : c.id = attribute.collection}
        matching == AttributeTokens(attribute)
        root == MerkleRoot({a.token_id : a \in matching})
        id == TokenSetId("list", NoField, NoField, root)
    IN IF attribute = NoAttribute THEN NoSet
       ELSE IF found = {} \/ \A c \in found : c.token_set_id = NoTokenSet THEN NoSet
       ELSE IF matching = {} THEN NoSet
       ELSE IF \E a \in matching : a.contract # meta.contract THEN NoSet
       ELSE IF root # meta.merkleRoot THEN NoSet
       ELSE [id |-> id,
             row |-> TokenSetRow(id, attribute.collection, attribute.key, attribute.value),
             members |-> {MemberRow(id, a.contract, a.token_id) : a \in matching}]

\* switch (orderMetadata.kind): tokenSetInfo and the rows to insert
ResolvedTokenSet(h, attribute) ==
    LET meta == OrderMetadata(h) IN
    CASE meta.kind = "token" -> TokenCase(meta)
      [] meta.kind = "collection" -> CollectionCase(meta)
      [] meta.kind = "attribute" -> AttributeCase(meta, attribute)

\* insert into token_sets ... on conflict do nothing, for the orders of a call
RECURSIVE TokenSetsSaved(_, _, _)
TokenSetsSaved(tbl, hs, attrs) ==
    IF hs = <<>> THEN tbl
    ELSE LET set == ResolvedTokenSet(Head(hs), Head(attrs))
             next == IF set = NoSet \/ \E r \in tbl : r.id = set.id
                     THEN tbl ELSE tbl \cup {set.row}
         IN TokenSetsSaved(next, Tail(hs), Tail(attrs))

\* insert into token_sets_tokens ... on conflict do nothing, for the orders of
\* the call whose set had no member when the call looked (tokenSetTokensExists)
TokenSetsTokensSaved(tbl, hs, attrs) ==
    tbl \cup UNION {ResolvedTokenSet(hs[i], attrs[i]).members :
                       i \in {k \in DOMAIN hs :
                                 ~\E r \in tbl :
                                     r.token_set_id = ResolvedTokenSet(hs[k], attrs[k]).id}}

\* the orders of the call that are refused
Refused(hs, attrs) ==
    {hs[i] : i \in {k \in DOMAIN hs : ResolvedTokenSet(hs[k], attrs[k]) = NoSet}}

(***************************************************************************)
(* Job queues (BullMQ): a job whose id the queue still holds is ignored.   *)
(* The queue holds the waiting jobs and the jobs a worker took; fewer jobs *)
(* finish in a run of the model than the queue retains (removeOnComplete:  *)
(* 1000), so every finished job is still held.                             *)
(***************************************************************************)
EmptyQueue == [waiting |-> {}, held |-> {}]

\* the job ids of the waiting jobs only: finished jobs are forgotten at once
QueueIdsWaiting(q) == {j.context : j \in q.waiting}

\* the job ids the queue holds
QueueIds(q) == {j.context : j \in q.waiting \cup q.held}

\* queue.add without a job id: every job is added
QueueAddNoJobId(q, job) == [q EXCEPT !.waiting = @ \cup {job}]

\* queue.add with opts.jobId = job.context
QueueAdd(q, job) ==
    IF job.context \in QueueIds(q) THEN q
    ELSE [q EXCEPT !.waiting = @ \cup {job}]

\* queue.addBulk that looks for the job ids in the queue as it was before the call
QueueAddBulkIdsBefore(q, jobs) ==
    [q EXCEPT !.waiting =
        @ \cup {jobs[i] : i \in {k \in DOMAIN jobs : jobs[k].context \notin QueueIds(q)}}]

\* queue.addBulk: the jobs are added one after the other
RECURSIVE QueueAddBulk(_, _)
QueueAddBulk(q, jobs) ==
    IF jobs = <<>> THEN q
    ELSE QueueAddBulk(QueueAdd(q, Head(jobs)), Tail(jobs))

\* the worker takes a job: it leaves the waiting list and stays held
QueueTake(q, job) == [waiting |-> q.waiting \ {job}, held |-> q.held \cup {job}]

\* jobs/orders-update addToOrdersUpdateByHashQueue(hashInfos)
AddToOrdersUpdateByHashQueue(q, hashInfos) == QueueAddBulk(q, hashInfos)

\* jobs/fills-handle addToFillsHandleQueue(fillInfos)
AddToFillsHandleQueue(q, fillInfos) == QueueAddBulk(q, fillInfos)

(***************************************************************************)
(* Sequence helpers                                                        *)
(***************************************************************************)
RECURSIVE SeqOfSet(_)
SeqOfSet(S) ==
    IF S = {} THEN <<>>
    ELSE LET x == CHOOSE y \in S : TRUE IN <<x>> \o SeqOfSet(S \ {x})

Range(s) == {s[i] : i \in DOMAIN s}

\* the sequences of 1..n distinct elements of S
SeqsUpTo(S, n) ==
    {s \in UNION {[1..k -> S] : k \in 1..n} :
        \A i, j \in DOMAIN s : s[i] = s[j] => i = j}

\* lastCall of a call from outside that returned: the operation, no exception,
\* no NonceIncremented event in it, not a batch delivered before, no block
\* being taken back, no order touched by a removed event, no refused order, and
\* for a call of the API its request and its response
Called(op) ==
    [op |-> op, threw |-> FALSE, bulk |-> {}, again |-> FALSE, fixed |-> NoField,
     touched |-> {}, invalid |-> {}, request |-> <<>>, response |-> [kind |-> "none"]]

\* every log of the batch was handed to the syncCallback before, with the same
\* backfill flag, in a call that returned
Again(logs, backfill) == \A i \in DOMAIN logs : <<logs[i], backfill, FALSE>> \in delivered

\* delivered after a syncCallback, after a fixCallback
Delivered(logs, backfill, threw) ==
    delivered \cup {<<logs[i], backfill, threw>> : i \in DOMAIN logs}
TakenBack(blockHash) == {d \in delivered : d[1].blockHash # blockHash}

(***************************************************************************)
(* Order intake: saveOrders                                                *)
(***************************************************************************)
TokenTransferProxy == "ttp"

\* the Wyvern user proxy registered for an owner
ProxyOf(owner) == IF owner = "m1" THEN "p1" ELSE "p2"

\* the value computed with the product kept to the width of the price
WidthN == 8
OrderValueWrapped(p) ==
    IF p.side = "buy"
    THEN p.basePrice - (((p.basePrice * p.takerRelayerFee) % (2 ^ WidthN)) \div 10000)
    ELSE p.basePrice

\* value of an order: price net of the taker fee for buys, the price for sells
OrderValue(p) ==
    IF p.side = "buy"
    THEN p.basePrice - ((p.basePrice * p.takerRelayerFee) \div 10000)
    ELSE p.basePrice

\* Math.max(order.params.makerRelayerFee, order.params.takerRelayerFee)
FeeBps(p) ==
    IF p.makerRelayerFee >= p.takerRelayerFee THEN p.makerRelayerFee ELSE p.takerRelayerFee

OpenSea == "0x5b3256965e7c3cf26e11fcaf296dfc8807c01073"
OpenSeaBps == 250

\* the attribution that gives every recipient the whole fee
SourceInfoWholeFee(p, source) ==
    [id |-> IF source = NoField THEN AddressZero ELSE source, bps |-> FeeBps(p)]

\* switch (order.params.feeRecipient)
SourceInfo(p, source) ==
    IF p.feeRecipient = OpenSea
    THEN [id |-> OpenSea, bps |-> OpenSeaBps]
    ELSE [id |-> IF source = NoField THEN AddressZero ELSE source, bps |-> FeeBps(p)]

\* royalty: the row of the collection of the contract, NoField when the query
\* finds none; royaltyInfo stays undefined (<<>>) without a row or a positive rest
RoyaltyInfo(p, source, royalty) ==
    IF royalty # NoField /\ FeeBps(p) - SourceInfo(p, source).bps > 0
    THEN <<[recipient |-> royalty, bps |-> FeeBps(p) - SourceInfo(p, source).bps]>>
    ELSE <<>>

\* the columns saveOrders computes from the order, its source and the royalty row
ComputedRow(p, source, royalty) ==
    [kind |-> "wyvern-v2.3", status |-> "fillable", side |-> p.side,
     price |-> p.basePrice, value |-> OrderValue(p),
     source_id |-> SourceInfo(p, source).id, source_bps |-> SourceInfo(p, source).bps,
     royalty_info |-> RoyaltyInfo(p, source, royalty), raw_data |-> p]

\* expirationTime == 0 ? "infinity" : expirationTime
ExpirationTime(p) == IF p.expirationTime = 0 THEN Infinity ELSE p.expirationTime

\* tokenSetInfo.id of an order that is saved
TokenSetIdOf(h) ==
    LET meta == OrderMetadata(h) IN
    CASE meta.kind = "token" -> TokenSetId("token", meta.contract, meta.tokenId, {})
      [] meta.kind = "collection" -> TokenSetId("contract", meta.contract, NoField, {})
      [] meta.kind = "attribute" -> TokenSetId("list", NoField, NoField, meta.merkleRoot)

\* now() of the database when the orders of the catalogue are first saved
StartTime == 0

\* the row saveOrders inserts for a new hash at StartTime
InsertedRow(h) ==
    LET p == OrderParams(h) IN
    [kind |-> "wyvern-v2.3", status |-> "fillable", side |-> p.side,
     valid_until |-> ExpirationTime(p), expiration |-> ExpirationTime(p),
     maker |-> p.maker, price |-> p.basePrice, value |-> OrderValue(p),
     nonce |-> p.nonce, contract |-> NftContract, token_id |-> p.tokenId,
     conduit |-> IF p.side = "sell" THEN ProxyOf(p.maker) ELSE TokenTransferProxy,
     quantity_remaining |-> 1, approval_status |-> "approved",
     created_at |-> StartTime, token_set_id |-> TokenSetIdOf(h)]

\* "created_at" = date_trunc('milliseconds', now())
InsertedRowAt(h, now) == [InsertedRow(h) EXCEPT !.created_at = now]

\* insert ... on conflict ("hash") do update set <everything but status>
UpsertOrder(tbl, h, now) ==
    IF h \in DOMAIN tbl
    THEN [tbl EXCEPT ![h] = [InsertedRowAt(h, now) EXCEPT
                               !.status = tbl[h].status,
                               !.approval_status = tbl[h].approval_status,
                               !.quantity_remaining = tbl[h].quantity_remaining]]
    ELSE [x \in DOMAIN tbl \cup {h} |-> IF x = h THEN InsertedRowAt(h, now) ELSE tbl[x]]

RECURSIVE UpsertOrders(_, _, _)
UpsertOrders(tbl, hs, now) ==
    IF hs = <<>> THEN tbl
    ELSE UpsertOrders(UpsertOrder(tbl, Head(hs), now), Tail(hs), now)

SaveJobs(hs) == [i \in DOMAIN hs |-> [context |-> "save", hash |-> hs[i]]]

\* the orders of the call that have a token set, in the order of the call
RECURSIVE Accepted(_, _)
Accepted(hs, attrs) ==
    IF hs = <<>> THEN <<>>
    ELSE (IF ResolvedTokenSet(Head(hs), Head(attrs)) = NoSet THEN <<>> ELSE <<Head(hs)>>)
             \o Accepted(Tail(hs), Tail(attrs))

\* saveOrders(orderInfos) with orderInfos[i] = {order: hs[i], attribute: attrs[i]},
\* called when the clock of the database shows now
SaveOrdersWith(hs, attrs, now) ==
    /\ orders' = UpsertOrders(orders, Accepted(hs, attrs), now)
    /\ token_sets' = TokenSetsSaved(token_sets, hs, attrs)
    /\ token_sets_tokens' = TokenSetsTokensSaved(token_sets_tokens, hs, attrs)
    /\ byHashQueue' = AddToOrdersUpdateByHashQueue(byHashQueue, SaveJobs(hs))
    /\ lastCall' = [Called("saveOrders") EXCEPT !.invalid =
                       {<<h, "Order has no matching token set">> : h \in Refused(hs, attrs)}]
    /\ UNCHANGED <<tokens, attributes, wyvernEvents, nftTables, ftTables, byMakerQueue,
                   fillsQueue, active, delivered>>
    /\ UNCHANGED <<attemptsMade, syncing, proxies>>

\* saveOrders of orders that come without an attribute
SaveOrdersAt(hs, now) == SaveOrdersWith(hs, [i \in DOMAIN hs |-> NoAttribute], now)

\* saveOrders within the millisecond of the first save
SaveOrders(hs) == SaveOrdersAt(hs, StartTime)

(***************************************************************************)
(* Chain logs of the exchange contract                                     *)
(***************************************************************************)
Blocks == {"B1", "B2"}

\* OrderCancelled(h1), mined in block bh
CancelLog(bh) ==
    [topic |-> "OrderCancelled", hash |-> "h1",
     blockHash |-> bh, txHash |-> "x1", logIndex |-> 0]

\* OrdersMatched(buyHash = h2, sellHash = h3), mined in block bh
MatchLog(bh) ==
    [topic |-> "OrdersMatched", buyHash |-> "h2", sellHash |-> "h3",
     blockHash |-> bh, txHash |-> "x2", logIndex |-> 1]

\* NonceIncremented(m1, n)
NonceLog(n) ==
    [topic |-> "NonceIncremented", maker |-> "m1", newNonce |-> n,
     blockHash |-> "B1", txHash |-> "x3", logIndex |-> n]

\* a log with the topic of an event and data the abi does not decode
UndecodableLog(topic, tx, logIndex) ==
    [topic |-> topic, data |-> "malformed", blockHash |-> "B1", txHash |-> tx,
     logIndex |-> logIndex]

\* whether parseEvent and abi.parseLog return for the log
Decodes(log) == "data" \notin DOMAIN log

\* the logs of the batch whose try block runs to its end; the catch of the
\* others writes to the error log and the loop goes on
Parsed(logs) == SelectSeq(logs, Decodes)

WyvernLogs ==
    {CancelLog(b) : b \in Blocks} \cup {MatchLog(b) : b \in Blocks}
        \cup {NonceLog(n) : n \in 1..MaxNonce}

\* baseParams.txHash + "-" + baseParams.logIndex.toString()
Context(log) == log.txHash \o "-" \o ToString(log.logIndex)

\* primary key of the event tables
EventKey == {"block_hash", "tx_hash", "log_index"}

\* the value of a row on the columns of a key
KeyOf(row, key) == [c \in key |-> row[c]]

\* insert ... on conflict do nothing, for a table with the primary key key
InsertRows(tbl, rows, key) ==
    tbl \cup {rows[i] : i \in {j \in DOMAIN rows :
                  /\ ~\E r \in tbl : KeyOf(r, key) = KeyOf(rows[j], key)
                  /\ ~\E k \in 1..(j - 1) : KeyOf(rows[k], key) = KeyOf(rows[j], key)}}

\* events/common/cancels addCancelEvents
CancelRow(log) ==
    [order_hash |-> log.hash, block_hash |-> log.blockHash,
     tx_hash |-> log.txHash, log_index |-> log.logIndex]

AddCancelEvents(tbl, logs) ==
    InsertRows(tbl, [i \in DOMAIN logs |-> CancelRow(logs[i])], EventKey)

\* events/common/fills addFillEvents
FillRow(log) ==
    [buy_hash |-> log.buyHash, sell_hash |-> log.sellHash,
     block_hash |-> log.blockHash, tx_hash |-> log.txHash, log_index |-> log.logIndex]

AddFillEvents(tbl, logs) ==
    InsertRows(tbl, [i \in DOMAIN logs |-> FillRow(logs[i])], EventKey)

\* events/common/cancels removeCancelEvents, events/common/fills removeFillEvents
RemoveEvents(tbl, blockHash) == {r \in tbl : r.block_hash # blockHash}

(***************************************************************************)
(* addBulkCancelEvents: one statement,                                     *)
(*   with x as (insert into bulk_cancel_events ... on conflict do nothing  *)
(*              returning "min_nonce")                                     *)
(*   update orders set status = 'cancelled' from x                         *)
(*   where kind = orderKind and maker = x.maker and nonce < x.min_nonce    *)
(*     and (status = 'valid' or status = 'no-balance') returning hash      *)
(***************************************************************************)
BulkCancelRow(log) ==
    [maker |-> log.maker, min_nonce |-> log.newNonce, block_hash |-> log.blockHash,
     tx_hash |-> log.txHash, log_index |-> log.logIndex]

\* primary key of bulk_cancel_events
BulkCancelKey == {"tx_hash", "log_index"}

\* the columns x has (its returning list) and the columns of x the update reads
XColumns == {"min_nonce"}
XColumnsRead == {"maker", "min_nonce"}

\* the database rejects a statement that reads a column x does not have
BulkCancelStatementFails == ~(XColumnsRead \subseteq XColumns)

\* the rows the statement inserts, and so the rows of x
BulkCancelInserted(tbl, logs) ==
    InsertRows(tbl, [i \in DOMAIN logs |-> BulkCancelRow(logs[i])], BulkCancelKey) \ tbl

\* the orders the update statement matches
BulkCancelMatched(tbl, orderKind, x) ==
    {h \in DOMAIN tbl :
        /\ tbl[h].kind = orderKind
        /\ tbl[h].status \in {"fillable", "no-balance"}
        /\ \E r \in x : tbl[h].maker = r.maker /\ tbl[h].nonce < r.min_nonce}

\* the orders a bulk-cancel row is about
BelowMinNonce(r) ==
    {h \in DOMAIN orders :
        /\ orders[h].kind = "wyvern-v2.3"
        /\ orders[h].maker = r.maker
        /\ orders[h].nonce < r.min_nonce}

\* the statement as the database would run it if x had the column maker
AddBulkCancelEventsAccepted(orderKind, logs) ==
    LET x == BulkCancelInserted(bulk_cancel_events, logs)
        hit == BulkCancelMatched(orders, orderKind, x)
    IN [threw |-> FALSE,
        events |-> bulk_cancel_events \cup x,
        orders |-> [h \in DOMAIN orders |->
                      IF h \in hit THEN [orders[h] EXCEPT !.status = "cancelled"]
                      ELSE orders[h]],
        hashes |-> hit]

\* the statement with an update that has no where clause
AddBulkCancelEventsNoWhere(orderKind, logs) ==
    [threw |-> FALSE,
     events |-> bulk_cancel_events \cup BulkCancelInserted(bulk_cancel_events, logs),
     orders |-> [h \in DOMAIN orders |-> [orders[h] EXCEPT !.status = "cancelled"]],
     hashes |-> DOMAIN orders]

\* result: whether it threw, the two tables after it, the hashes returned
AddBulkCancelEvents(orderKind, logs) ==
    IF logs = <<>> THEN
        [threw |-> FALSE, events |-> bulk_cancel_events, orders |-> orders, hashes |-> {}]
    ELSE IF BulkCancelStatementFails THEN
        [threw |-> TRUE, events |-> bulk_cancel_events, orders |-> orders, hashes |-> {}]
    ELSE
        LET x == BulkCancelInserted(bulk_cancel_events, logs)
            hit == BulkCancelMatched(orders, orderKind, x)
        IN [threw |-> FALSE,
            events |-> bulk_cancel_events \cup x,
            orders |-> [h \in DOMAIN orders |->
                          IF h \in hit THEN [orders[h] EXCEPT !.status = "cancelled"]
                          ELSE orders[h]],
            hashes |-> hit]

(***************************************************************************)
(* wyvern-v2.3 syncCallback and fixCallback                                *)
(***************************************************************************)
\* config.acceptOrders of the indexing process
AcceptOrders == TRUE

\* the hash-update triggers of the batch, in log order
RECURSIVE HashInfos(_)
HashInfos(logs) ==
    IF logs = <<>> THEN <<>>
    ELSE LET log == Head(logs) IN
         (CASE log.topic = "OrderCancelled" ->
                   <<[context |-> Context(log), hash |-> log.hash]>>
            [] log.topic = "OrdersMatched" ->
                   <<[context |-> Context(log), hash |-> log.buyHash],
                     [context |-> Context(log), hash |-> log.sellHash]>>
            [] OTHER -> <<>>) \o HashInfos(Tail(logs))

FillInfo(log) ==
    [context |-> Context(log), buyHash |-> log.buyHash, sellHash |-> log.sellHash]

IsNonceIncremented(log) == log.topic = "NonceIncremented"
IsOrderCancelled(log) == log.topic = "OrderCancelled"
IsOrdersMatched(log) == log.topic = "OrdersMatched"

BulkCancelledInfos(hashes) ==
    LET hs == SeqOfSet(hashes) IN [i \in DOMAIN hs |-> [context |-> hs[i], hash |-> hs[i]]]

SyncCallbackWyvern(logs, backfill) ==
    LET bulkCancelEvents == SelectSeq(Parsed(logs), IsNonceIncremented)
        cancelEvents == SelectSeq(Parsed(logs), IsOrderCancelled)
        fillEvents == SelectSeq(Parsed(logs), IsOrdersMatched)
        fillInfos == [i \in DOMAIN fillEvents |-> FillInfo(fillEvents[i])]
        bulk == AddBulkCancelEvents("wyvern-v2.3", bulkCancelEvents)
    IN
    /\ lastCall' = [Called("syncCallback") EXCEPT
                       !.threw = bulk.threw,
                       !.bulk = {<<e.maker, e.newNonce>> : e \in Range(bulkCancelEvents)},
                       !.again = Again(logs, backfill),
                       !.fixed = lastCall.fixed,
                       !.touched = lastCall.touched]
    /\ delivered' = Delivered(logs, backfill, bulk.threw)
    /\ IF bulk.threw
       THEN UNCHANGED <<orders, wyvernEvents, byHashQueue, fillsQueue>>
       ELSE /\ bulk_cancel_events' = bulk.events
            /\ orders' = bulk.orders
            /\ cancel_events' = AddCancelEvents(cancel_events, cancelEvents)
            /\ fill_events' = AddFillEvents(fill_events, fillEvents)
            /\ IF ~backfill /\ AcceptOrders
               THEN /\ byHashQueue' =
                        AddToOrdersUpdateByHashQueue(
                            AddToOrdersUpdateByHashQueue(byHashQueue, HashInfos(Parsed(logs))),
                            BulkCancelledInfos(bulk.hashes))
                    /\ fillsQueue' = AddToFillsHandleQueue(fillsQueue, fillInfos)
               ELSE UNCHANGED <<byHashQueue, fillsQueue>>
    /\ UNCHANGED <<tokenTables, nftTables, ftTables, byMakerQueue, active>>
    /\ UNCHANGED <<attemptsMade, syncing, proxies>>

\* the orders whose state rests on an event row of the block
TouchedBy(blockHash) ==
    {r.order_hash : r \in {x \in cancel_events : x.block_hash = blockHash}}
        \cup {r.buy_hash : r \in {x \in fill_events : x.block_hash = blockHash}}
        \cup {r.sell_hash : r \in {x \in fill_events : x.block_hash = blockHash}}
        \cup UNION {BelowMinNonce(r) : r \in {x \in bulk_cancel_events : x.block_hash = blockHash}}

FixCallbackWyvern(blockHash) ==
    /\ cancel_events' = RemoveEvents(cancel_events, blockHash)
    /\ fill_events' = RemoveEvents(fill_events, blockHash)
    /\ lastCall' = [Called("fixCallback") EXCEPT !.fixed = blockHash,
                                                 !.touched = TouchedBy(blockHash)]
    /\ delivered' = TakenBack(blockHash)
    /\ UNCHANGED <<tokenTables, orders, bulk_cancel_events, nftTables, ftTables, byHashQueue,
                   byMakerQueue, fillsQueue, active>>
    /\ UNCHANGED <<attemptsMade, syncing, proxies>>

(***************************************************************************)
(* Hash-update worker: re-derives one order from the current tables        *)
(***************************************************************************)
NftBalance(owner, tokenId) ==
    IF <<owner, tokenId>> \in DOMAIN nft_balances THEN nft_balances[<<owner, tokenId>>] ELSE 0

\* the recorded balance of the payment token of the orders
FtBalance(owner) ==
    IF <<owner, Weth>> \in DOMAIN ft_balances THEN ft_balances[<<owner, Weth>>] ELSE 0

HasFill(h) == \E r \in fill_events : r.buy_hash = h \/ r.sell_hash = h

HasCancel(h) == \E r \in cancel_events : r.order_hash = h

IsBulkCancelled(row) ==
    /\ row.kind = "wyvern-v2.3"
    /\ \E r \in bulk_cancel_events : r.maker = row.maker /\ row.nonce < r.min_nonce

HasBalance(row) ==
    IF row.side = "sell"
    THEN NftBalance(row.maker, row.token_id) >= row.quantity_remaining
    ELSE FtBalance(row.maker) >= row.price

DerivedStatus(h, row) ==
    IF HasFill(h) THEN "filled"
    ELSE IF HasCancel(h) \/ IsBulkCancelled(row) THEN "cancelled"
    ELSE IF HasBalance(row) THEN "fillable"
    ELSE "no-balance"

\* the latest ApprovalForAll rows of (owner, operator)
LatestApprovals(owner, operator) ==
    LET mine == {r \in nft_approval_events : r.owner = owner /\ r.operator = operator}
    IN {r \in mine : \A q \in mine : q.block <= r.block}

DerivedApproval(row) ==
    IF row.side = "sell"
    THEN LET last == LatestApprovals(row.maker, row.conduit) IN
         IF last = {} THEN row.approval_status
         ELSE IF \E r \in last : r.approved THEN "approved" ELSE "no-approval"
    ELSE IF <<row.maker, row.conduit>> \in DOMAIN ft_approvals
         THEN IF ft_approvals[<<row.maker, row.conduit>>] >= row.price
              THEN "approved" ELSE "no-approval"
         ELSE row.approval_status

\* the expiration of an order that is fillable and approved is the end of its
\* validity; otherwise the time it stopped being so stays as recorded
DerivedExpiration(h, row) ==
    IF DerivedStatus(h, row) = "fillable" /\ DerivedApproval(row) = "approved"
    THEN row.valid_until ELSE row.expiration

HashUpdated(h) ==
    IF h \in DOMAIN orders
    THEN [orders EXCEPT ![h] = [@ EXCEPT !.status = DerivedStatus(h, orders[h]),
                                         !.approval_status = DerivedApproval(orders[h]),
                                         !.expiration = DerivedExpiration(h, orders[h])]]
    ELSE orders

HashUpdateJob(job) ==
    /\ job \in byHashQueue.waiting
    /\ byHashQueue' = QueueTake(byHashQueue, job)
    /\ orders' = HashUpdated(job.hash)
    /\ UNCHANGED <<tokenTables, wyvernEvents, nftTables, ftTables, byMakerQueue,
                   fillsQueue, active,
                   history>>
    /\ UNCHANGED <<attemptsMade, syncing, proxies>>

(***************************************************************************)
(* Fill handler: marks the two orders of a match filled                    *)
(***************************************************************************)
FillsHandleJob(job) ==
    /\ job \in fillsQueue.waiting
    /\ fillsQueue' = QueueTake(fillsQueue, job)
    /\ orders' = [h \in DOMAIN orders |->
                    IF h \in {job.buyHash, job.sellHash}
                    THEN [orders[h] EXCEPT !.status = "filled"]
                    ELSE orders[h]]
    /\ UNCHANGED <<tokenTables, wyvernEvents, nftTables, ftTables, byHashQueue,
                   byMakerQueue, active,
                   history>>
    /\ UNCHANGED <<attemptsMade, syncing, proxies>>

(***************************************************************************)
(* Maker-update queue                                                      *)
(***************************************************************************)

\* MakerInfo of the maker-update worker: context, maker and data.{kind, contract,
\* tokenId, operator, orderKind}; a field the kind does not have is NoField
MakerJob(context, maker, kind, contract, tokenId, operator, orderKind) ==
    [context |-> context, maker |-> maker, kind |-> kind, contract |-> contract,
     tokenId |-> tokenId, operator |-> operator, orderKind |-> orderKind]

IsNotAddressZero(makerInfo) == makerInfo.maker # AddressZero

\* addToQueue(makerInfos): ignore the zero address, jobId = makerInfo.context
AddToQueue(q, makerInfos) == QueueAddBulk(q, SelectSeq(makerInfos, IsNotAddressZero))

\* the job of a trigger the event ingestor hands over; the trigger of an
\* ApprovalForAll log carries the operator in its contract field, the job is
\* about the indexed NFT contract
MakerJobOfInfo(info) ==
    IF info.checkApproval
    THEN MakerJob(info.context, info.maker, "sell-approval", NftContract, NoField,
                  info.contract, NoField)
    ELSE MakerJob(info.context, info.maker, "sell-balance", info.contract, info.tokenId,
                  NoField, NoField)

\* jobs/orders-update addToOrdersUpdateByMakerQueue(makerInfos)
AddToOrdersUpdateByMakerQueue(q, makerInfos) ==
    AddToQueue(q, [i \in DOMAIN makerInfos |-> MakerJobOfInfo(makerInfos[i])])

(***************************************************************************)
(* Chain logs of the NFT contract; erc1155 syncCallback and fixCallback    *)
(***************************************************************************)
\* TransferSingle(from, to, tokenId, amount = 1)
TransferLog(from, to, tokenId, bh, tx, logIndex) ==
    [topic |-> "TransferSingle", from |-> from, to |-> to, tokenId |-> tokenId,
     amount |-> 1, address |-> NftContract, block |-> 1, blockHash |-> bh,
     txHash |-> tx, logIndex |-> logIndex]

\* ApprovalForAll(owner, operator, approved)
ApprovalLog(owner, operator, approved, block, bh, tx, logIndex) ==
    [topic |-> "ApprovalForAll", owner |-> owner, operator |-> operator,
     approved |-> approved, address |-> NftContract, block |-> block, blockHash |-> bh,
     txHash |-> tx, logIndex |-> logIndex]

IsTransferSingle(log) == log.topic = "TransferSingle"
IsApprovalForAll(log) == log.topic = "ApprovalForAll"

NftApprovalRow(log) ==
    [address |-> log.address, block |-> log.block, block_hash |-> log.blockHash,
     tx_hash |-> log.txHash, log_index |-> log.logIndex, owner |-> log.owner,
     operator |-> log.operator, approved |-> log.approved]

\* insert into nft_approval_events ... on conflict do nothing
AddNftApprovalEvents(tbl, logs) ==
    InsertRows(tbl, [i \in DOMAIN logs |-> NftApprovalRow(logs[i])], EventKey)

NftTransferRow(log) ==
    [address |-> log.address, block_hash |-> log.blockHash, tx_hash |-> log.txHash,
     log_index |-> log.logIndex, from |-> log.from, to |-> log.to,
     token_id |-> log.tokenId, amount |-> log.amount]

\* what the transfer rows of a set add to the balance of (owner, tokenId)
RECURSIVE BalanceDelta(_, _, _)
BalanceDelta(rows, owner, tokenId) ==
    IF rows = {} THEN 0
    ELSE LET r == CHOOSE x \in rows : TRUE
             d == IF r.token_id # tokenId THEN 0
                  ELSE (IF r.to = owner THEN r.amount ELSE 0)
                       - (IF r.from = owner THEN r.amount ELSE 0)
         IN d + BalanceDelta(rows \ {r}, owner, tokenId)

\* the balance rows after the transfer rows of added (sign 1) or removed (sign -1)
\* events are applied; the zero address has no balance row
AppliedTransfers(bal, rows, sign) ==
    LET touched == {<<r.from, r.token_id>> : r \in rows} \cup {<<r.to, r.token_id>> : r \in rows}
        keys == DOMAIN bal \cup {k \in touched : k[1] # AddressZero}
    IN [k \in keys |->
          (IF k \in DOMAIN bal THEN bal[k] ELSE 0) + sign * BalanceDelta(rows, k[1], k[2])]

\* events/common/nft-transfers addNftTransferEvents: the rows newly inserted
NewNftTransferRows(tbl, logs) ==
    InsertRows(tbl, [i \in DOMAIN logs |-> NftTransferRow(logs[i])], EventKey) \ tbl

\* the triggers of the batch, in log order
RECURSIVE MakerInfos(_)
MakerInfos(logs) ==
    IF logs = <<>> THEN <<>>
    ELSE LET log == Head(logs) IN
         (CASE log.topic = "TransferSingle" ->
                   <<[context |-> Context(log), side |-> "sell", maker |-> log.from,
                      contract |-> log.address, tokenId |-> log.tokenId,
                      checkApproval |-> FALSE],
                     [context |-> Context(log), side |-> "sell", maker |-> log.to,
                      contract |-> log.address, tokenId |-> log.tokenId,
                      checkApproval |-> FALSE]>>
            [] log.topic = "ApprovalForAll" ->
                   <<[context |-> Context(log), side |-> "sell", maker |-> log.owner,
                      contract |-> log.operator, tokenId |-> NoField,
                      checkApproval |-> TRUE]>>
            [] OTHER -> <<>>) \o MakerInfos(Tail(logs))

SyncCallbackErc1155(logs, backfill) ==
    LET approvalEvents == SelectSeq(Parsed(logs), IsApprovalForAll)
        transferEvents == SelectSeq(Parsed(logs), IsTransferSingle)
        inserted == NewNftTransferRows(nft_transfer_events, transferEvents)
    IN
    /\ nft_approval_events' = AddNftApprovalEvents(nft_approval_events, approvalEvents)
    /\ nft_transfer_events' = nft_transfer_events \cup inserted
    /\ nft_balances' = AppliedTransfers(nft_balances, inserted, 1)
    /\ byMakerQueue' = IF ~backfill /\ AcceptOrders
                       THEN AddToOrdersUpdateByMakerQueue(byMakerQueue, MakerInfos(Parsed(logs)))
                       ELSE byMakerQueue
    /\ lastCall' = [Called("syncCallback") EXCEPT !.again = Again(logs, backfill)]
    /\ delivered' = Delivered(logs, backfill, FALSE)
    /\ UNCHANGED <<tokenTables, orders, wyvernEvents, ftTables, byHashQueue, fillsQueue,
                   active>>
    /\ UNCHANGED <<attemptsMade, syncing, proxies>>

FixCallbackErc1155(blockHash) ==
    LET removed == {r \in nft_transfer_events : r.block_hash = blockHash} IN
    /\ nft_approval_events' = RemoveEvents(nft_approval_events, blockHash)
    /\ nft_transfer_events' = nft_transfer_events \ removed
    /\ nft_balances' = AppliedTransfers(nft_balances, removed, -1)
    /\ lastCall' = Called("fixCallback")
    /\ delivered' = TakenBack(blockHash)
    /\ UNCHANGED <<tokenTables, orders, wyvernEvents, ftTables, byHashQueue,
                   byMakerQueue, fillsQueue,
                   active>>
    /\ UNCHANGED <<attemptsMade, syncing, proxies>>

(***************************************************************************)
(* Maker-update worker.  A job reads (SELECT), then writes (UPDATE ... WHERE *)
(* id = x.id) and enqueues the rechecks; other jobs run in between.        *)
(***************************************************************************)
Concurrency == 30
MaxAllowance == 2    \* the allowance read from the chain is in 0..MaxAllowance

LiveStatuses == {"fillable", "no-balance"}
Escrowed == {"foundation", "cryptopunks"}

\* a row of a job's SELECT
StatusRow(h, old, new, job) ==
    [id |-> h, kind |-> orders[h].kind, old_status |-> old, new_status |-> new,
     expiration |-> IF new \in {"fillable", "approved"}
                    THEN orders[h].valid_until ELSE TxTimestamp(job.context)]

\* the SELECT of "buy-balance" with the balance compared against the price of
\* one unit less
BuyBalanceRowsUnderpriced(job) ==
    {StatusRow(h, orders[h].status,
               IF ft_balances[<<job.maker, job.contract>>] >= (orders[h].price - 1) * orders[h].quantity_remaining
               THEN "fillable" ELSE "no-balance", job) :
       h \in {x \in DOMAIN orders :
                /\ orders[x].maker = job.maker
                /\ orders[x].side = "buy"
                /\ orders[x].status \in LiveStatuses
                /\ <<job.maker, job.contract>> \in DOMAIN ft_balances}}

\* case "buy-balance": the SELECT
BuyBalanceRows(job) ==
    {StatusRow(h, orders[h].status,
               IF ft_balances[<<job.maker, job.contract>>] >= orders[h].price * orders[h].quantity_remaining
               THEN "fillable" ELSE "no-balance", job) :
       h \in {x \in DOMAIN orders :
                /\ orders[x].maker = job.maker
                /\ orders[x].side = "buy"
                /\ orders[x].status \in LiveStatuses
                /\ <<job.maker, job.contract>> \in DOMAIN ft_balances}}

\* the SELECT of "sell-balance" with the comparison the wrong way round
SellBalanceRowsReversed(job) ==
    {StatusRow(h, orders[h].status,
               IF nft_balances[<<job.maker, job.tokenId>>] <= orders[h].quantity_remaining
               THEN "fillable" ELSE "no-balance", job) :
       h \in {x \in DOMAIN orders :
                /\ orders[x].maker = job.maker
                /\ orders[x].side = "sell"
                /\ orders[x].status \in LiveStatuses
                /\ orders[x].contract = job.contract
                /\ orders[x].token_id = job.tokenId
                /\ job.contract = NftContract
                /\ <<job.maker, job.tokenId>> \in DOMAIN nft_balances}}

\* case "sell-balance": the SELECT
SellBalanceRows(job) ==
    {StatusRow(h, orders[h].status,
               IF nft_balances[<<job.maker, job.tokenId>>] >= orders[h].quantity_remaining
               THEN "fillable" ELSE "no-balance", job) :
       h \in {x \in DOMAIN orders :
                /\ orders[x].maker = job.maker
                /\ orders[x].side = "sell"
                /\ orders[x].status \in LiveStatuses
                /\ orders[x].contract = job.contract
                /\ orders[x].token_id = job.tokenId
                /\ job.contract = NftContract
                /\ <<job.maker, job.tokenId>> \in DOMAIN nft_balances}}

\* the rows ORDER BY block DESC LIMIT 1 may return for an order
LatestApprovalRows(row) ==
    LET mine == {r \in nft_approval_events :
                    /\ r.address = row.contract
                    /\ r.owner = row.maker
                    /\ r.operator = row.conduit}
    IN {r \in mine : \A q \in mine : q.block <= r.block}

SellApprovalOrders(job) ==
    {h \in DOMAIN orders :
        /\ orders[h].contract = job.contract
        /\ orders[h].maker = job.maker
        /\ orders[h].side = "sell"
        /\ orders[h].conduit = job.operator
        /\ orders[h].status \in LiveStatuses
        /\ LatestApprovalRows(orders[h]) # {}}

\* case "sell-approval": the results the SELECT may have
SellApprovalReads(job) ==
    LET hs == SellApprovalOrders(job) IN
    {{StatusRow(h, orders[h].approval_status, f[h], job) : h \in hs} :
        f \in {g \in [hs -> {"approved", "no-approval"}] :
                  \A h \in hs : \E r \in LatestApprovalRows(orders[h]) :
                      g[h] = IF r.approved THEN "approved" ELSE "no-approval"}}

\* case "buy-approval" with an operator: x of the UPDATE, and the probe
BuyApprovalOrders(job) ==
    {h \in DOMAIN orders :
        /\ orders[h].maker = job.maker
        /\ orders[h].side = "buy"
        /\ orders[h].conduit = job.operator
        /\ orders[h].status \in LiveStatuses}

\* an UPDATE that derives 'approved' whatever the allowance
BuyApprovalStatusNoCase(row, job) == "approved"

\* CASE WHEN orders.currency_price > y.value THEN 'no-approval' ELSE 'approved'
\* with y LEFT JOINed: no ft_approvals row gives 'approved'
BuyApprovalStatus(row, job) ==
    IF /\ <<job.maker, job.operator>> \in DOMAIN ft_approvals
       /\ job.contract = Weth
       /\ row.price > ft_approvals[<<job.maker, job.operator>>]
    THEN "no-approval" ELSE "approved"

\* the rows the UPDATE of "buy-approval" changes and returns
BuyApprovalRows(job) ==
    {StatusRow(h, orders[h].approval_status, BuyApprovalStatus(orders[h], job), job) :
       h \in {x \in BuyApprovalOrders(job) :
                orders[x].approval_status # BuyApprovalStatus(orders[x], job)}}

\* case "buy-approval" with an orderKind: SELECT DISTINCT orders.conduit
BuyApprovalConduits(job) ==
    {orders[h].conduit : h \in {x \in DOMAIN orders :
        /\ orders[x].maker = job.maker
        /\ orders[x].side = "buy"
        /\ orders[x].kind = job.orderKind
        /\ orders[x].status \in LiveStatuses}}

\* the results the read of a job may have
MakerReads(job) ==
    CASE job.kind = "buy-balance" -> {BuyBalanceRows(job)}
      [] job.kind = "sell-balance" -> {SellBalanceRows(job)}
      [] job.kind = "sell-approval" -> SellApprovalReads(job)
      [] OTHER -> {{}}

\* .filter(old_status !== new_status) and the exclusion of escrowed kinds
ChangedRows(rows, excluded) ==
    {r \in rows : r.old_status # r.new_status /\ r.kind \notin excluded}

\* an x2y2 order that gets underwater is cancelled
PromotedStatus(r) ==
    IF r.kind = "x2y2" /\ r.new_status = "no-balance" THEN "cancelled" ELSE r.new_status

\* the table that holds the rows of the UPDATE only
WriteFillabilityUpdatedOnly(tbl, values) ==
    [h \in {r.id : r \in values} |->
       LET r == CHOOSE x \in values : x.id = h IN
       [tbl[h] EXCEPT !.status = PromotedStatus(r), !.expiration = r.expiration]]

\* UPDATE orders SET fillability_status = x.fillability_status WHERE orders.id = x.id
WriteFillability(tbl, values) ==
    [h \in DOMAIN tbl |->
       IF \E r \in values : r.id = h
       THEN LET r == CHOOSE x \in values : x.id = h IN
            [tbl[h] EXCEPT !.status = PromotedStatus(r), !.expiration = r.expiration]
       ELSE tbl[h]]

\* UPDATE orders SET approval_status = x.approval_status WHERE orders.id = x.id
WriteApproval(tbl, values) ==
    [h \in DOMAIN tbl |->
       IF \E r \in values : r.id = h
       THEN LET r == CHOOSE x \in values : x.id = h IN
            [tbl[h] EXCEPT !.approval_status = r.new_status, !.expiration = r.expiration]
       ELSE tbl[h]]

\* the x2y2 orders whose approval got revoked are cancelled
WriteCancelled(tbl, rows) ==
    [h \in DOMAIN tbl |->
       IF \E r \in rows : r.id = h /\ r.kind = "x2y2" /\ r.new_status = "no-approval"
       THEN [tbl[h] EXCEPT !.status = "cancelled",
                           !.expiration = (CHOOSE r \in rows : r.id = h).expiration]
       ELSE tbl[h]]

\* orderUpdatesById.addToQueue(rows.map(context: `${context}-${id}`))
RecheckJobs(job, rows) ==
    LET ids == SeqOfSet({r.id : r \in rows}) IN
    [i \in DOMAIN ids |-> [context |-> job.context \o "-" \o ids[i], hash |-> ids[i]]]

\* the fan-out with every job under the context of its parent
ConduitJobsOneContext(job, conduits) ==
    LET cs == SeqOfSet(conduits \ {NoField}) IN
    [i \in DOMAIN cs |->
       MakerJob(job.context, job.maker, "buy-approval", job.contract, NoField, cs[i],
                NoField)]

\* the jobs "buy-approval" with an orderKind fans out to, one per conduit
ConduitJobs(job, conduits) ==
    LET cs == SeqOfSet(conduits \ {NoField}) IN
    [i \in DOMAIN cs |->
       MakerJob(job.context \o "-" \o cs[i], job.maker, "buy-approval", job.contract,
                NoField, cs[i], NoField)]

\* utils/erc20 fetchAndUpdateFtApproval: the allowance on chain replaces the row
FetchedFtApproval(tbl, owner, spender, value) ==
    [k \in DOMAIN tbl \cup {<<owner, spender>>} |->
       IF k = <<owner, spender>> THEN value ELSE tbl[k]]

\* first half of a job: the worker takes it and reads
MakerRead(job) ==
    /\ job \in byMakerQueue.waiting
    /\ Cardinality(active) < Concurrency
    /\ byMakerQueue' = QueueTake(byMakerQueue, job)
    /\ IF job.kind = "buy-approval" /\ job.operator # NoField
       THEN IF BuyApprovalOrders(job) # {}
            THEN /\ \E v \in 0..MaxAllowance :
                      ft_approvals' =
                          FetchedFtApproval(ft_approvals, job.maker, job.operator, v)
                 /\ active' = active \cup {[job |-> job, rows |-> {}, conduits |-> {}]}
            ELSE UNCHANGED <<ft_approvals, active>>
       ELSE IF job.kind = "buy-approval"
       THEN /\ active' = active \cup
                  {[job |-> job, rows |-> {},
                    conduits |-> IF job.orderKind # NoField
                                 THEN BuyApprovalConduits(job) ELSE {}]}
            /\ UNCHANGED ft_approvals
       ELSE /\ \E rows \in MakerReads(job) :
                 active' = active \cup {[job |-> job, rows |-> rows, conduits |-> {}]}
            /\ UNCHANGED ft_approvals
    /\ UNCHANGED <<tokenTables, orders, wyvernEvents, nftTables, ft_transfer_events,
                   ft_balances,
                   byHashQueue, fillsQueue, history>>
    /\ UNCHANGED <<attemptsMade, syncing, proxies>>

\* the orders table after the writes of a job that read rec.rows
MakerWritten(rec) ==
    LET job == rec.job IN
    CASE job.kind = "buy-balance" ->
             WriteFillability(orders, ChangedRows(rec.rows, {}))
      [] job.kind = "sell-balance" ->
             WriteFillability(orders, ChangedRows(rec.rows, Escrowed))
      [] job.kind = "sell-approval" ->
             WriteCancelled(WriteApproval(orders, ChangedRows(rec.rows, Escrowed)),
                            rec.rows)
      [] job.kind = "buy-approval" /\ job.operator # NoField ->
             WriteCancelled(WriteApproval(orders, BuyApprovalRows(job)),
                            BuyApprovalRows(job))
      [] OTHER -> orders

\* the rows whose orders the job has rechecked by hash
RecheckedRows(rec) ==
    IF rec.job.kind = "buy-approval"
    THEN IF rec.job.operator # NoField THEN BuyApprovalRows(rec.job) ELSE {}
    ELSE rec.rows

\* second half of a job: it writes and enqueues what follows
MakerWrite(rec) ==
    /\ rec \in active
    /\ active' = active \ {rec}
    /\ orders' = MakerWritten(rec)
    /\ byHashQueue' = AddToOrdersUpdateByHashQueue(
                          byHashQueue, RecheckJobs(rec.job, RecheckedRows(rec)))
    /\ byMakerQueue' = AddToQueue(byMakerQueue, ConduitJobs(rec.job, rec.conduits))
    /\ UNCHANGED <<tokenTables, wyvernEvents, nftTables, ftTables, fillsQueue, history>>
    /\ UNCHANGED <<attemptsMade, syncing, proxies>>

(***************************************************************************)
(* Chain logs of the payment token; erc20 syncCallback                     *)
(***************************************************************************)
\* Transfer(from, to, amount) of WETH
FtTransferLog(from, to, amount, bh, tx, logIndex) ==
    [topic |-> "Transfer", from |-> from, to |-> to, amount |-> amount,
     address |-> Weth, blockHash |-> bh, txHash |-> tx, logIndex |-> logIndex]

\* Approval(owner, spender) of WETH
FtApprovalLog(owner, spender, bh, tx, logIndex) ==
    [topic |-> "Approval", owner |-> owner, spender |-> spender,
     address |-> Weth, blockHash |-> bh, txHash |-> tx, logIndex |-> logIndex]

IsFtTransfer(log) == log.topic = "Transfer"

FtTransferRow(log) ==
    [address |-> log.address, block_hash |-> log.blockHash, tx_hash |-> log.txHash,
     log_index |-> log.logIndex, from |-> log.from, to |-> log.to, amount |-> log.amount]

\* what the transfer rows of a set add to the balance of an owner
RECURSIVE FtBalanceDelta(_, _)
FtBalanceDelta(rows, key) ==
    IF rows = {} THEN 0
    ELSE LET r == CHOOSE x \in rows : TRUE IN
         (IF <<r.to, r.address>> = key THEN r.amount ELSE 0)
             - (IF <<r.from, r.address>> = key THEN r.amount ELSE 0)
             + FtBalanceDelta(rows \ {r}, key)

AppliedFtTransfers(bal, rows) ==
    LET keys == DOMAIN bal \cup {k \in {<<r.from, r.address>> : r \in rows}
                                         \cup {<<r.to, r.address>> : r \in rows} :
                                    k[1] # AddressZero}
    IN [k \in keys |-> (IF k \in DOMAIN bal THEN bal[k] ELSE 0) + FtBalanceDelta(rows, k)]

\* the maker-update jobs of the batch, in log order
RECURSIVE FtMakerJobs(_)
FtMakerJobs(logs) ==
    IF logs = <<>> THEN <<>>
    ELSE LET log == Head(logs) IN
         (CASE log.topic = "Transfer" ->
                   <<MakerJob(Context(log), log.from, "buy-balance", log.address,
                              NoField, NoField, NoField),
                     MakerJob(Context(log), log.to, "buy-balance", log.address,
                              NoField, NoField, NoField)>>
            [] log.topic = "Approval" ->
                   <<MakerJob(Context(log), log.owner, "buy-approval", log.address,
                              NoField, log.spender, NoField)>>
            [] OTHER -> <<>>) \o FtMakerJobs(Tail(logs))

SyncCallbackErc20(logs, backfill) ==
    LET transferEvents == SelectSeq(logs, IsFtTransfer)
        inserted == InsertRows(ft_transfer_events,
                               [i \in DOMAIN transferEvents |->
                                  FtTransferRow(transferEvents[i])], EventKey)
                        \ ft_transfer_events
    IN
    /\ ft_transfer_events' = ft_transfer_events \cup inserted
    /\ ft_balances' = AppliedFtTransfers(ft_balances, inserted)
    /\ byMakerQueue' = IF ~backfill /\ AcceptOrders
                       THEN AddToQueue(byMakerQueue, FtMakerJobs(logs))
                       ELSE byMakerQueue
    /\ lastCall' = [Called("syncCallback") EXCEPT !.again = Again(logs, backfill)]
    /\ delivered' = Delivered(logs, backfill, FALSE)
    /\ UNCHANGED <<tokenTables, orders, wyvernEvents, nftTables, ft_approvals,
                   byHashQueue, fillsQueue,
                   active>>
    /\ UNCHANGED <<attemptsMade, syncing, proxies>>

(***************************************************************************)
(* SpecW: order intake and the exchange's events                           *)
(***************************************************************************)
NoRows == <<>>

InitTables ==
    /\ orders = NoRows
    /\ cancel_events = {}
    /\ fill_events = {}
    /\ bulk_cancel_events = {}
    /\ nft_approval_events = {}
    /\ nft_transfer_events = {}
    /\ ft_transfer_events = {}
    /\ byHashQueue = EmptyQueue
    /\ byMakerQueue = EmptyQueue
    /\ fillsQueue = EmptyQueue
    /\ active = {} /\ attemptsMade = NoRows /\ syncing = {}
    /\ wyvern_proxies = NoRows /\ getProxyCalls = {}
    /\ tokens = {[contract |-> NftContract, token_id |-> "t1", collection_id |-> "c1"]}
    /\ attributes = {}
    /\ token_sets = {}
    /\ token_sets_tokens = {}
    /\ lastCall = Called("init")
    /\ delivered = {}

\* every maker holds what the orders of the catalogue offer
InitW ==
    /\ InitTables
    /\ nft_balances = (<<"m1", "t1">> :> 1) @@ (<<"m2", "t2">> :> 1)
    /\ ft_balances = (<<"m1", Weth>> :> 2)
    /\ ft_approvals = (<<"m1", TokenTransferProxy>> :> 2)

\* live sync of one block: orders are submitted, cancelled and matched
LogsW == {CancelLog("B1"), MatchLog("B1")}

NextW ==
    \/ \E hs \in SeqsUpTo(Hashes, MaxBatch) : SaveOrders(hs)
    \/ \E logs \in SeqsUpTo(LogsW, MaxBatch) : SyncCallbackWyvern(logs, FALSE)
    \/ \E job \in byHashQueue.waiting : HashUpdateJob(job)
    \/ \E job \in fillsQueue.waiting : FillsHandleJob(job)

SpecW == InitW /\ [][NextW]_vars

(***************************************************************************)
(* SpecB: a maker raises the exchange nonce                                *)
(***************************************************************************)
LogsB == {NonceLog(n) : n \in 1..MaxNonce} \cup {CancelLog("B1")}

NextB ==
    \/ \E hs \in SeqsUpTo(Hashes, MaxBatch) : SaveOrders(hs)
    \/ \E logs \in SeqsUpTo(LogsB, MaxBatch), backfill \in BOOLEAN :
          SyncCallbackWyvern(logs, backfill)
    \/ \E job \in byHashQueue.waiting : HashUpdateJob(job)

SpecB == InitW /\ [][NextB]_vars

(***************************************************************************)
(* SpecS: sell orders, transfers and approvals of the NFT                  *)
(***************************************************************************)
SellHashes == {h \in Hashes : OrderParams(h).side = "sell"}

\* m1 gives t1 away, t1 is minted to m1, m1 revokes and grants its proxy
LogsS ==
    {TransferLog("m1", "m2", "t1", "B1", "y1", 0),
     TransferLog(AddressZero, "m1", "t1", "B1", "y2", 1),
     ApprovalLog("m1", "p1", FALSE, 1, "B1", "y3", 2),
     ApprovalLog("m1", "p1", TRUE, 2, "B2", "y4", 3)}

NextS ==
    \/ \E hs \in SeqsUpTo(SellHashes, MaxBatch) : SaveOrders(hs)
    \/ \E logs \in SeqsUpTo(LogsS, MaxBatch) : SyncCallbackErc1155(logs, FALSE)
    \/ \E job \in byMakerQueue.waiting : MakerRead(job)
    \/ \E rec \in active : MakerWrite(rec)
    \/ \E job \in byHashQueue.waiting : HashUpdateJob(job)

SpecS == InitW /\ [][NextS]_vars

(***************************************************************************)
(* SpecP: buy orders, transfers and approvals of the payment token         *)
(***************************************************************************)
BuyHashes == {h \in Hashes : OrderParams(h).side = "buy"}

\* m1 pays 1 to m2, 1 is minted to m1, m1 sets the allowance of the proxy
LogsP ==
    {FtTransferLog("m1", "m2", 1, "B1", "z1", 0),
     FtTransferLog(AddressZero, "m1", 1, "B1", "z2", 1),
     FtApprovalLog("m1", TokenTransferProxy, "B1", "z3", 2)}

NextP ==
    \/ \E hs \in SeqsUpTo(BuyHashes, MaxBatch) : SaveOrders(hs)
    \/ \E logs \in SeqsUpTo(LogsP, MaxBatch) : SyncCallbackErc20(logs, FALSE)
    \/ \E job \in byMakerQueue.waiting : MakerRead(job)
    \/ \E rec \in active : MakerWrite(rec)
    \/ \E job \in byHashQueue.waiting : HashUpdateJob(job)

SpecP == InitW /\ [][NextP]_vars

(***************************************************************************)
(* SpecR: a block is taken back.  The orders are on the book before the    *)
(* events arrive; after fixCallback and the replacement batch the          *)
(* hash-updates of the orders the removed events touched are run.          *)
(***************************************************************************)
LogsR == {NonceLog(1), CancelLog("B2"), MatchLog("B1")}

\* no job is waiting in a queue and no maker-update job is between read and write
Quiescent ==
    /\ byHashQueue.waiting = {}
    /\ byMakerQueue.waiting = {}
    /\ fillsQueue.waiting = {}
    /\ active = {}

\* the hash-updates of the touched orders, run once the jobs of the batches are
\* through
RunTouchedHashUpdates ==
    /\ lastCall.fixed # NoField
    /\ lastCall.op \in {"fixCallback", "syncCallback"}
    /\ Quiescent
    /\ orders' = [h \in DOMAIN orders |->
                    IF h \in lastCall.touched THEN HashUpdated(h)[h] ELSE orders[h]]
    /\ lastCall' = Called("rechecked")
    /\ UNCHANGED <<tokenTables, wyvernEvents, nftTables, ftTables, byHashQueue, byMakerQueue,
                   fillsQueue, active, delivered>>
    /\ UNCHANGED <<attemptsMade, syncing, proxies>>

NextR ==
    \/ \E hs \in SeqsUpTo(Hashes, MaxBatch) : delivered = {} /\ SaveOrders(hs)
    \/ \E logs \in SeqsUpTo(LogsR, MaxBatch) : SyncCallbackWyvern(logs, FALSE)
    \/ \E b \in Blocks : FixCallbackWyvern(b)
    \/ RunTouchedHashUpdates
    \/ \E job \in byHashQueue.waiting : HashUpdateJob(job)
    \/ \E job \in fillsQueue.waiting : FillsHandleJob(job)

SpecR == InitW /\ [][NextR]_vars

(***************************************************************************)
(* SpecI: the event source hands batches over again                        *)
(***************************************************************************)
LogsIW == {CancelLog("B1"), NonceLog(1)}

LogsIN ==
    {TransferLog("m1", "m2", "t1", "B1", "y1", 0),
     ApprovalLog("m1", "p1", FALSE, 1, "B1", "y3", 2)}

\* the one stored order the logs of LogsIW and LogsIN are about
HashesI == {"h1"}

NextI ==
    \/ \E hs \in SeqsUpTo(HashesI, MaxBatch) : SaveOrders(hs)
    \/ \E logs \in SeqsUpTo(LogsIW, MaxBatch), backfill \in BOOLEAN :
          SyncCallbackWyvern(logs, backfill)
    \/ \E logs \in SeqsUpTo(LogsIN, MaxBatch) : SyncCallbackErc1155(logs, FALSE)
    \/ \E job \in byMakerQueue.waiting : MakerRead(job)
    \/ \E rec \in active : MakerWrite(rec)
    \/ \E job \in byHashQueue.waiting : HashUpdateJob(job)

SpecI == InitW /\ [][NextI]_vars

(***************************************************************************)
(* SpecD: events are ingested, then the workers drain the queues in any    *)
(* order, the maker-update jobs reading and writing in separate steps      *)
(***************************************************************************)
HashesD == {"h1", "h2"}

LogsDW == {CancelLog("B1")}

LogsDN ==
    {TransferLog("m1", "m2", "t1", "B1", "y1", 0),
     TransferLog(AddressZero, "m1", "t1", "B1", "y2", 1),
     ApprovalLog("m1", "p1", FALSE, 1, "B1", "y3", 2)}

LogsDP == {FtTransferLog("m1", "m2", 1, "B1", "z1", 0)}

Ingesting == lastCall.op # "startWorkers"

\* the worker processes are started
StartWorkers ==
    /\ Ingesting
    /\ lastCall' = Called("startWorkers")
    /\ UNCHANGED <<tokenTables, orders, wyvernEvents, nftTables, ftTables, byHashQueue,
                   byMakerQueue,
                   fillsQueue, active, delivered>>
    /\ UNCHANGED <<attemptsMade, syncing, proxies>>

NextD ==
    \/ \E hs \in SeqsUpTo(HashesD, MaxBatch) : Ingesting /\ SaveOrders(hs)
    \/ \E logs \in SeqsUpTo(LogsDW, MaxBatch) :
          Ingesting /\ SyncCallbackWyvern(logs, FALSE)
    \/ \E logs \in SeqsUpTo(LogsDN, MaxBatch) :
          Ingesting /\ SyncCallbackErc1155(logs, FALSE)
    \/ \E logs \in SeqsUpTo(LogsDP, MaxBatch) :
          Ingesting /\ SyncCallbackErc20(logs, FALSE)
    \/ StartWorkers
    \/ \E job \in byMakerQueue.waiting : ~Ingesting /\ MakerRead(job)
    \/ \E rec \in active : ~Ingesting /\ MakerWrite(rec)
    \/ \E job \in byHashQueue.waiting : ~Ingesting /\ HashUpdateJob(job)

SpecD == InitW /\ [][NextD]_vars

(***************************************************************************)
(* SpecE: maker-update jobs are executed at least once: an attempt may     *)
(* fail before or after its write and the queue runs the job again, and a  *)
(* finished job may be run once more                                       *)
(***************************************************************************)
\* m1 revokes and grants the approval of the proxy within one block
LogsE ==
    {TransferLog("m1", "m2", "t1", "B1", "y1", 0),
     ApprovalLog("m1", "p1", FALSE, 1, "B1", "y3", 2),
     ApprovalLog("m1", "p1", TRUE, 1, "B1", "y4", 3)}

\* the queue hands a job it holds to a worker again
QueueRetry(q, job) == [q EXCEPT !.waiting = @ \cup {job}]

\* the attempt throws before its UPDATE; attempts: 5 lets the queue retry it
MakerFailBeforeWrite(rec) ==
    /\ rec \in active
    /\ active' = active \ {rec}
    /\ byMakerQueue' = QueueRetry(byMakerQueue, rec.job)
    /\ UNCHANGED <<tokenTables, orders, wyvernEvents, nftTables, ftTables, byHashQueue,
                   fillsQueue,
                   history>>
    /\ UNCHANGED <<attemptsMade, syncing, proxies>>

\* the attempt throws after its UPDATE and before it enqueues the rechecks
MakerFailAfterWrite(rec) ==
    /\ rec \in active
    /\ active' = active \ {rec}
    /\ orders' = MakerWritten(rec)
    /\ byMakerQueue' = QueueRetry(byMakerQueue, rec.job)
    /\ UNCHANGED <<tokenTables, wyvernEvents, nftTables, ftTables, byHashQueue,
                   fillsQueue, history>>
    /\ UNCHANGED <<attemptsMade, syncing, proxies>>

\* a job that finished is delivered once more
MakerRedeliver(job) ==
    /\ job \in byMakerQueue.held \ byMakerQueue.waiting
    /\ ~\E rec \in active : rec.job = job
    /\ byMakerQueue' = QueueRetry(byMakerQueue, job)
    /\ UNCHANGED <<tokenTables, orders, wyvernEvents, nftTables, ftTables, byHashQueue,
                   fillsQueue,
                   active, history>>
    /\ UNCHANGED <<attemptsMade, syncing, proxies>>

NextE ==
    \/ \E hs \in SeqsUpTo(HashesI, MaxBatch) : SaveOrders(hs)
    \/ \E logs \in SeqsUpTo(LogsE, MaxBatch) : SyncCallbackErc1155(logs, FALSE)
    \/ \E job \in byMakerQueue.waiting : MakerRead(job)
    \/ \E rec \in active : MakerWrite(rec)
    \/ \E rec \in active : MakerFailBeforeWrite(rec)
    \/ \E rec \in active : MakerFailAfterWrite(rec)
    \/ \E job \in byMakerQueue.held : MakerRedeliver(job)
    \/ \E job \in byHashQueue.waiting : HashUpdateJob(job)

SpecE == InitW /\ [][NextE]_vars

(***************************************************************************)
(* SpecL: the token of a saved sell order leaves its maker and comes back  *)
(***************************************************************************)
\* the logs of the chain in their order: t1 goes from m1 to m2, t2 from m2 to
\* m1, t1 comes back to m1
ChainL ==
    <<TransferLog("m1", "m2", "t1", "B1", "y1", 0),
      TransferLog("m2", "m1", "t2", "B1", "y2", 1),
      TransferLog("m2", "m1", "t1", "B1", "y5", 4)>>

\* the logs of the chain the ingestor has stored
IngestedL == {i \in DOMAIN ChainL : \E e \in nft_transfer_events :
                 e.tx_hash = ChainL[i].txHash /\ e.log_index = ChainL[i].logIndex}

\* the sell order h1 of m1 on t1 is saved and its hash-update job has run
InitL ==
    /\ cancel_events = {} /\ fill_events = {} /\ bulk_cancel_events = {}
    /\ nft_approval_events = {} /\ nft_transfer_events = {} /\ ft_transfer_events = {}
    /\ byMakerQueue = EmptyQueue /\ fillsQueue = EmptyQueue /\ active = {} /\ attemptsMade = NoRows /\ syncing = {}
    /\ wyvern_proxies = NoRows /\ getProxyCalls = {}
    /\ lastCall = Called("saveOrders") /\ delivered = {}
    /\ tokens = {[contract |-> NftContract, token_id |-> "t1", collection_id |-> "c1"]}
    /\ attributes = {}
    /\ token_sets = TokenSetsSaved({}, <<"h1">>, <<NoAttribute>>)
    /\ token_sets_tokens = TokenSetsTokensSaved({}, <<"h1">>, <<NoAttribute>>)
    /\ nft_balances = (<<"m1", "t1">> :> 1) @@ (<<"m2", "t2">> :> 1)
    /\ ft_balances = (<<"m1", Weth>> :> 2)
    /\ ft_approvals = (<<"m1", TokenTransferProxy>> :> 2)
    /\ orders = UpsertOrder(NoRows, "h1", StartTime)
    /\ byHashQueue = QueueTake(AddToOrdersUpdateByHashQueue(EmptyQueue, SaveJobs(<<"h1">>)),
                               SaveJobs(<<"h1">>)[1])

\* the ingestor is handed consecutive logs, none before its predecessors
NextL ==
    \/ \E i \in DOMAIN ChainL : \E j \in i..Len(ChainL) :
          /\ j - i < MaxBatch
          /\ \A k \in 1..(i - 1) : k \in IngestedL
          /\ SyncCallbackErc1155(SubSeq(ChainL, i, j), FALSE)
    \/ \E job \in byMakerQueue.waiting : MakerRead(job)
    \/ \E rec \in active : MakerWrite(rec)
    \/ \E job \in byHashQueue.waiting : HashUpdateJob(job)

SpecL == InitL /\ [][NextL]_vars

(***************************************************************************)
(* SpecF: buy orders and the transfers of two ERC20 tokens                 *)
(***************************************************************************)
\* m1 pays 1 WETH to m2; 1 DAI is minted to m1
LogsF ==
    {FtTransferLog("m1", "m2", 1, "B1", "z1", 0),
     [FtTransferLog(AddressZero, "m1", 1, "B1", "z4", 3) EXCEPT !.address = Dai]}

NextF ==
    \/ \E hs \in SeqsUpTo(BuyHashes, MaxBatch) : SaveOrders(hs)
    \/ \E logs \in SeqsUpTo(LogsF, MaxBatch) : SyncCallbackErc20(logs, FALSE)
    \/ \E job \in byMakerQueue.waiting : MakerRead(job)
    \/ \E rec \in active : MakerWrite(rec)
    \/ \E job \in byHashQueue.waiting : HashUpdateJob(job)

SpecF == InitW /\ [][NextF]_vars

(***************************************************************************)
(* SpecV: orders are saved again later, after events changed their state   *)
(***************************************************************************)
MaxNow == 1         \* the clock of the database shows StartTime..MaxNow

\* the clock does not go back: no row was created after now
NotBefore(now) == \A h \in DOMAIN orders : orders[h].created_at <= now

NextV ==
    \/ \E hs \in SeqsUpTo(SellHashes, MaxBatch), now \in StartTime..MaxNow :
          NotBefore(now) /\ SaveOrdersAt(hs, now)
    \/ \E logs \in SeqsUpTo(LogsIN, MaxBatch) : SyncCallbackErc1155(logs, FALSE)
    \/ \E job \in byMakerQueue.waiting : MakerRead(job)
    \/ \E rec \in active : MakerWrite(rec)
    \/ \E job \in byHashQueue.waiting : HashUpdateJob(job)

SpecV == InitW /\ [][NextV]_vars

(***************************************************************************)
(* SpecN: saveOrders computes the value and the fee attribution of orders  *)
(* of any price and fees.  The hash of an order stands for its content, so *)
(* the table is keyed by the order parameters.                             *)
(***************************************************************************)
PricesN == {0, 1, 41, 2 ^ WidthN - 1}
FeesN == {0, 250, 500, 10000}
MaxSavedN == 1      \* orders in the table

ParamsN ==
    [side : {"buy", "sell"}, basePrice : PricesN, takerRelayerFee : FeesN,
     makerRelayerFee : FeesN, feeRecipient : {OpenSea, "f1"}]

\* saveOrders([{order, source}]) with the royalty row the database returns; the
\* order is on the token of h1
SaveOrderInfo(p, source, royalty) ==
    /\ Cardinality(DOMAIN orders \ {p}) < MaxSavedN
    /\ orders' = [x \in DOMAIN orders \cup {p} |->
                     IF x = p
                     THEN IF p \in DOMAIN orders
                          THEN [ComputedRow(p, source, royalty) EXCEPT
                                   !.status = orders[p].status]
                          ELSE ComputedRow(p, source, royalty)
                     ELSE orders[x]]
    /\ byHashQueue' = AddToOrdersUpdateByHashQueue(byHashQueue,
                                                   <<[context |-> "save", hash |-> p]>>)
    /\ token_sets' = TokenSetsSaved(token_sets, <<"h1">>, <<NoAttribute>>)
    /\ token_sets_tokens' = TokenSetsTokensSaved(token_sets_tokens, <<"h1">>, <<NoAttribute>>)
    /\ lastCall' = Called("saveOrders")
    /\ UNCHANGED <<tokens, attributes, wyvernEvents, nftTables, ftTables, byMakerQueue,
                   fillsQueue, active, delivered>>
    /\ UNCHANGED <<attemptsMade, syncing, proxies>>

NextN ==
    \E p \in ParamsN, source \in {NoField, "s1"}, royalty \in {NoField, "r1"} :
        SaveOrderInfo(p, source, royalty)

SpecN == InitW /\ [][NextN]_vars

(***************************************************************************)
(* SpecT: list and contract-wide orders are saved while tokens join the    *)
(* collection and get its attribute                                        *)
(***************************************************************************)
HashesT == {"a1", "a2", "w1"}

AttributesT == {NoAttribute, Attribute("c1")}

\* the tokens the metadata indexer may add to the collection c1
JoiningT == {[contract |-> NftContract, token_id |-> "t2", collection_id |-> "c1"]}

\* the attribute rows the metadata indexer may add; u1 is a token of another contract
AttributeRowsT ==
    {[collection_id |-> "c1", key |-> "k", value |-> "v", contract |-> c[1], token_id |-> c[2]] :
        c \in {<<NftContract, "t1">>, <<NftContract, "t2">>, <<"nft2", "u1">>}}

\* a token joins a collection
IndexToken(t) ==
    /\ t \notin tokens
    /\ tokens' = tokens \cup {t}
    /\ UNCHANGED <<orders, attributes, token_sets, token_sets_tokens, wyvernEvents,
                   nftTables, ftTables, byHashQueue, byMakerQueue, fillsQueue, active,
                   history>>
    /\ UNCHANGED <<attemptsMade, syncing, proxies>>

\* a token gets an attribute
IndexAttribute(a) ==
    /\ a \notin attributes
    /\ attributes' = attributes \cup {a}
    /\ UNCHANGED <<orders, tokens, token_sets, token_sets_tokens, wyvernEvents,
                   nftTables, ftTables, byHashQueue, byMakerQueue, fillsQueue, active,
                   history>>
    /\ UNCHANGED <<attemptsMade, syncing, proxies>>

NextT ==
    \/ \E hs \in SeqsUpTo(HashesT, MaxBatch) : \E attrs \in [DOMAIN hs -> AttributesT] :
          SaveOrdersWith(hs, attrs, StartTime)
    \/ \E t \in JoiningT : IndexToken(t)
    \/ \E a \in AttributeRowsT : IndexAttribute(a)
    \/ \E job \in byHashQueue.waiting : HashUpdateJob(job)

SpecT == InitW /\ [][NextT]_vars

(***************************************************************************)
(* SpecK: every operation that writes the orders table, on one book:       *)
(* orders are saved, cancelled, matched and bulk-cancelled, their tokens   *)
(* move, blocks are taken back, and the workers run                        *)
(***************************************************************************)
HashesK == {"h1", "h3"}

LogsKW == {CancelLog("B1"), MatchLog("B1"), NonceLog(1)}

LogsKN == {TransferLog("m1", "m2", "t1", "B1", "y1", 0)}

MaxBatchK == 1      \* logs per syncCallback batch in SpecK

NextK ==
    \/ \E hs \in SeqsUpTo(HashesK, MaxBatch) : delivered = {} /\ SaveOrders(hs)
    \/ \E logs \in SeqsUpTo(LogsKW, MaxBatchK) : SyncCallbackWyvern(logs, FALSE)
    \/ \E logs \in SeqsUpTo(LogsKN, MaxBatchK) : SyncCallbackErc1155(logs, FALSE)
    \/ FixCallbackWyvern("B1")
    \/ FixCallbackErc1155("B1")
    \/ \E job \in byMakerQueue.waiting : MakerRead(job)
    \/ \E rec \in active : MakerWrite(rec)
    \/ \E job \in byHashQueue.waiting : HashUpdateJob(job)
    \/ \E job \in fillsQueue.waiting : FillsHandleJob(job)

SpecK == InitW /\ [][NextK]_vars

(***************************************************************************)
(* Step builders of the API: get-cancel, get-sell, get-bid.  A handler     *)
(* answers with a step list or an {error}, or it fails (it rethrows what   *)
(* it caught and the request ends with a server error)                     *)
(***************************************************************************)
Failure == [kind |-> "failure"]
ErrorResponse(error) == [kind |-> "error", error |-> error]
StepsResponse(steps) == [kind |-> "steps", steps |-> steps]

\* pg-promise db.one: rejects unless the query returns exactly one row
DbOne(rows) ==
    IF Cardinality(rows) = 1
    THEN [threw |-> FALSE, row |-> CHOOSE r \in rows : TRUE]
    ELSE [threw |-> TRUE, row |-> NoField]

\* the statuses get-cancel looks for: 'valid', 'no-balance', 'disabled'
CancellableStatuses == {"fillable", "no-balance", "disabled"}

\* select ... from orders where hash = $/hash/ and maker = $/maker/ and status in (...)
CancelQuery(hash, maker) ==
    {h \in DOMAIN orders :
        /\ h = hash
        /\ orders[h].maker = maker
        /\ orders[h].status \in CancellableStatuses}

\* getExecuteCancelOptions.handler
GetExecuteCancel(hash, maker) ==
    LET order == DbOne(CancelQuery(hash, maker)) IN
    IF order.threw THEN Failure
    ELSE IF order.row = NoField THEN ErrorResponse("No matching order")
    ELSE IF orders[order.row].kind \in {"wyvern-v2", "wyvern-v2.3"}
    THEN StepsResponse(<<IF orders[order.row].side = "sell"
                         THEN "Submit cancellation" ELSE "Cancel offer",
                         "Confirmation">>)
    ELSE ErrorResponse("No matching order")

\* no best order
NoOrder == "none"

\* the steps of get-sell for a taker with or without a registered proxy
SellSteps ==
    <<"Initialize wallet", "Approve WETH contract", "Approve NFT contract",
      "Accept offer", "Confirmation">>

\* getExecuteSellOptions.handler: bestOrder is the answer of queries.getBestOrder,
\* kinds the kind column of the contracts rows of the order's target, owns
\* whether the chain shows the taker as owner (erc721) or with a balance (erc1155)
GetExecuteSell(bestOrder, kinds, owns) ==
    IF bestOrder = NoOrder THEN ErrorResponse("No matching order")
    ELSE LET c == DbOne(kinds) IN
         IF c.threw THEN Failure
         ELSE IF c.row \in {"erc721", "erc1155"}
         THEN IF ~owns THEN ErrorResponse("No ownership") ELSE StepsResponse(SellSteps)
         ELSE ErrorResponse("Unknown contract")

BidSteps == <<"Wrapping ETH", "Approve WETH contract", "Authorize offer", "Submit offer">>

\* getExecuteBidOptions.handler: built tells whether buildOrder returned an
\* order, price is its order.params.basePrice, wethBalance and ethBalance are
\* the balances of the maker on chain
GetExecuteBid(built, price, wethBalance, ethBalance) ==
    IF ~built THEN ErrorResponse("Could not generate order")
    ELSE IF wethBalance < price /\ wethBalance + ethBalance < price
    THEN ErrorResponse("Not enough balance")
    ELSE StepsResponse(BidSteps)

\* a request to a step builder: the tables and the queues stay as they are
Answered(op, request, response) ==
    /\ lastCall' = [Called(op) EXCEPT !.request = request, !.response = response]
    /\ UNCHANGED <<tokenTables, orders, wyvernEvents, nftTables, ftTables, byHashQueue,
                   byMakerQueue, fillsQueue, active, delivered>>
    /\ UNCHANGED <<attemptsMade, syncing, proxies>>

GetCancel(hash, maker) ==
    Answered("get-cancel", <<hash, maker>>, GetExecuteCancel(hash, maker))

GetSell(bestOrder, kinds, owns) ==
    Answered("get-sell", <<bestOrder, kinds, owns>>, GetExecuteSell(bestOrder, kinds, owns))

GetBid(built, price, wethBalance, ethBalance) ==
    Answered("get-bid", <<built, price, wethBalance, ethBalance>>,
             GetExecuteBid(built, price, wethBalance, ethBalance))

(***************************************************************************)
(* SpecA: users ask the step builders while orders are saved and cancelled *)
(***************************************************************************)
HashesA == {"h1", "h2"}

\* a hash no order has
UnknownHash == "h9"

LogsA == {CancelLog("B1")}

\* the kinds the contracts table may hold for a target; at most one row per address
ContractKinds == {{}, {"erc721"}, {"erc1155"}, {"erc20"}}

MaxBalance == 2      \* the balances read from the chain are in 0..MaxBalance

NextA ==
    \/ \E hs \in SeqsUpTo(HashesA, MaxBatch) : SaveOrders(hs)
    \/ \E logs \in SeqsUpTo(LogsA, MaxBatch) : SyncCallbackWyvern(logs, FALSE)
    \/ \E job \in byHashQueue.waiting : HashUpdateJob(job)
    \/ \E hash \in HashesA \cup {UnknownHash}, maker \in Makers : GetCancel(hash, maker)
    \/ \E bestOrder \in {h \in DOMAIN orders : orders[h].side = "buy"} \cup {NoOrder},
          kinds \in ContractKinds, owns \in BOOLEAN : GetSell(bestOrder, kinds, owns)
    \/ \E built \in BOOLEAN, price \in 1..MaxBalance, wethBalance, ethBalance \in 0..MaxBalance :
          GetBid(built, price, wethBalance, ethBalance)

SpecA == InitW /\ [][NextA]_vars

(***************************************************************************)
(* SpecX: the event source takes blocks back while the two ingestors store *)
(* the events of two blocks during a backfill                              *)
(***************************************************************************)
LogsXW == {CancelLog("B1"), CancelLog("B2"), MatchLog("B2"), NonceLog(1)}

LogsXN ==
    {TransferLog("m1", "m2", "t1", "B1", "y1", 0),
     ApprovalLog("m1", "p1", FALSE, 1, "B1", "y3", 2),
     ApprovalLog("m1", "p1", TRUE, 2, "B2", "y4", 3)}

NextX ==
    \/ \E logs \in SeqsUpTo(LogsXW, MaxBatch) : SyncCallbackWyvern(logs, TRUE)
    \/ \E logs \in SeqsUpTo(LogsXN, MaxBatch) : SyncCallbackErc1155(logs, TRUE)
    \/ \E b \in Blocks : FixCallbackWyvern(b)
    \/ \E b \in Blocks : FixCallbackErc1155(b)

SpecX == InitW /\ [][NextX]_vars

(***************************************************************************)
(* SpecG: the ingestors are handed batches of a backfill and live batches  *)
(* while an order is on the book                                           *)
(***************************************************************************)
LogsGW == {CancelLog("B1"), MatchLog("B1"), NonceLog(1)}

NextG ==
    \/ \E hs \in SeqsUpTo(HashesI, MaxBatch) : delivered = {} /\ SaveOrders(hs)
    \/ \E logs \in SeqsUpTo(LogsGW, MaxBatch), backfill \in BOOLEAN :
          SyncCallbackWyvern(logs, backfill)
    \/ \E logs \in SeqsUpTo(LogsIN, MaxBatch), backfill \in BOOLEAN :
          SyncCallbackErc1155(logs, backfill)

SpecG == InitW /\ [][NextG]_vars

(***************************************************************************)
(* SpecU: batches that hold a log the abi does not decode                  *)
(***************************************************************************)
LogsUW == {CancelLog("B1"), NonceLog(1), UndecodableLog("OrdersMatched", "x2", 1)}

LogsUN ==
    {TransferLog("m1", "m2", "t1", "B1", "y1", 0),
     ApprovalLog("m1", "p1", TRUE, 1, "B1", "y3", 2),
     UndecodableLog("TransferSingle", "y2", 1)}

NextU ==
    \/ \E logs \in SeqsUpTo(LogsUW, MaxBatch) : SyncCallbackWyvern(logs, FALSE)
    \/ \E logs \in SeqsUpTo(LogsUN, MaxBatch) : SyncCallbackErc1155(logs, FALSE)

SpecU == InitW /\ [][NextU]_vars

(***************************************************************************)
(* SpecM: the transactions of block B1 are mined again in block B2 and     *)
(* their logs are handed over a second time                                *)
(***************************************************************************)
\* the log of the same transaction and log index in the block bh
Remined(log, bh) == [log EXCEPT !.blockHash = bh]

LogsMW == {Remined(log, bh) : log \in {CancelLog("B1"), MatchLog("B1"), NonceLog(1)},
                              bh \in Blocks}

LogsMN ==
    {Remined(log, bh) : log \in {TransferLog("m1", "m2", "t1", "B1", "y1", 0),
                                 ApprovalLog("m1", "p1", TRUE, 1, "B1", "y3", 2)},
                        bh \in Blocks}

NextM ==
    \/ \E logs \in SeqsUpTo(LogsMW, MaxBatchK) : SyncCallbackWyvern(logs, TRUE)
    \/ \E logs \in SeqsUpTo(LogsMN, MaxBatchK) : SyncCallbackErc1155(logs, TRUE)

SpecM == InitW /\ [][NextM]_vars

(***************************************************************************)
(* SpecQ: attempts of the maker-update jobs of a buy order fail and are    *)
(* run again; no hash-update job is executed, so that every approval       *)
(* status other than the one of saveOrders was written by a maker-update   *)
(***************************************************************************)
HashesQ == {"h2"}

NextQ ==
    \/ \E hs \in SeqsUpTo(HashesQ, MaxBatch) : SaveOrders(hs)
    \/ \E logs \in SeqsUpTo(LogsP, MaxBatch) : SyncCallbackErc20(logs, FALSE)
    \/ \E job \in byMakerQueue.waiting : MakerRead(job)
    \/ \E rec \in active : MakerWrite(rec)
    \/ \E rec \in active : MakerFailBeforeWrite(rec)
    \/ \E rec \in active : MakerFailAfterWrite(rec)

SpecQ == InitW /\ [][NextQ]_vars

(***************************************************************************)
(* SpecY: the book holds orders of the kind x2y2, a sell order of m1 on t1 *)
(* and a buy order of m1, each stored with the approval status derived     *)
(* when it came in, when the transfers and approvals arrive                *)
(***************************************************************************)
HashesY == {"h1", "h2"}

\* the row of an order of the marketplace x2y2 with the parameters of h
X2Y2Row(h, approval) ==
    [InsertedRow(h) EXCEPT !.kind = "x2y2", !.approval_status = approval]

\* m1 gives t1 away, m1 revokes its proxy
LogsYN ==
    {TransferLog("m1", "m2", "t1", "B1", "y1", 0),
     ApprovalLog("m1", "p1", FALSE, 1, "B1", "y3", 2)}

InitY ==
    /\ cancel_events = {} /\ fill_events = {} /\ bulk_cancel_events = {}
    /\ nft_approval_events = {} /\ nft_transfer_events = {} /\ ft_transfer_events = {}
    /\ byHashQueue = EmptyQueue /\ byMakerQueue = EmptyQueue /\ fillsQueue = EmptyQueue
    /\ active = {} /\ attemptsMade = NoRows /\ syncing = {}
    /\ wyvern_proxies = NoRows /\ getProxyCalls = {}
    /\ lastCall = Called("init") /\ delivered = {}
    /\ tokens = {[contract |-> NftContract, token_id |-> "t1", collection_id |-> "c1"]}
    /\ attributes = {}
    /\ token_sets = {} /\ token_sets_tokens = {}
    /\ nft_balances = (<<"m1", "t1">> :> 1) @@ (<<"m2", "t2">> :> 1)
    /\ ft_balances = (<<"m1", Weth>> :> 2)
    /\ ft_approvals = (<<"m1", TokenTransferProxy>> :> 2)
    /\ \E approval \in [HashesY -> {"approved", "no-approval"}] :
          orders = [h \in HashesY |-> X2Y2Row(h, approval[h])]

NextY ==
    \/ \E logs \in SeqsUpTo(LogsYN, MaxBatchK) : SyncCallbackErc1155(logs, FALSE)
    \/ \E logs \in SeqsUpTo(LogsP, MaxBatchK) : SyncCallbackErc20(logs, FALSE)
    \/ \E job \in byMakerQueue.waiting : MakerRead(job)
    \/ \E rec \in active : MakerWrite(rec)

SpecY == InitY /\ [][NextY]_vars

(***************************************************************************)
(* SpecO: a payment-token transfer of a transaction with a fill asks for   *)
(* the approvals of the maker's buy orders of one kind to be rechecked     *)
(***************************************************************************)
HashesO == {"h2", "h4"}
OrderKinds == {"wyvern-v2.3", "x2y2"}
Conduits == {TokenTransferProxy, "e1", NoField}

\* the row of a buy order of m1 with the kind, conduit and status given
BuyRow(h, kind, conduit, status) ==
    [InsertedRow(h) EXCEPT !.kind = kind, !.conduit = conduit, !.status = status]

\* the book holds two buy orders of m1 of any kind, conduit and status
InitO ==
    /\ cancel_events = {} /\ fill_events = {} /\ bulk_cancel_events = {}
    /\ nft_approval_events = {} /\ nft_transfer_events = {} /\ ft_transfer_events = {}
    /\ byHashQueue = EmptyQueue /\ byMakerQueue = EmptyQueue /\ fillsQueue = EmptyQueue
    /\ active = {} /\ attemptsMade = NoRows /\ syncing = {}
    /\ wyvern_proxies = NoRows /\ getProxyCalls = {}
    /\ lastCall = Called("init") /\ delivered = {}
    /\ tokens = {[contract |-> NftContract, token_id |-> "t1", collection_id |-> "c1"]}
    /\ attributes = {}
    /\ token_sets = {} /\ token_sets_tokens = {}
    /\ nft_balances = (<<"m1", "t1">> :> 1) @@ (<<"m2", "t2">> :> 1)
    /\ ft_balances = (<<"m1", Weth>> :> 2)
    /\ ft_approvals = (<<"m1", TokenTransferProxy>> :> 2)
    /\ \E kind \in [HashesO -> OrderKinds], conduit \in [HashesO -> Conduits],
          status \in [HashesO -> {"fillable", "no-balance", "cancelled"}] :
          orders = [h \in HashesO |-> BuyRow(h, kind[h], conduit[h], status[h])]

\* the ERC20 ingestor saw a Transfer of m1 in the transaction z1 of a fill of
\* the order kind: a buy-approval job keyed by orderKind
TransferWithFill(orderKind) ==
    /\ byMakerQueue' =
           AddToQueue(byMakerQueue,
                      <<MakerJob("z1-0-" \o orderKind, "m1", "buy-approval", Weth, NoField,
                                 NoField, orderKind)>>)
    /\ UNCHANGED <<tokenTables, orders, wyvernEvents, nftTables, ftTables, byHashQueue,
                   fillsQueue, active, history>>
    /\ UNCHANGED <<attemptsMade, syncing, proxies>>

NextO ==
    \/ \E orderKind \in OrderKinds : TransferWithFill(orderKind)
    \/ \E job \in byMakerQueue.waiting : MakerRead(job)
    \/ \E rec \in active : MakerWrite(rec)

SpecO == InitO /\ [][NextO]_vars

(***************************************************************************)
(* SpecJ: the retry policy of the maker-update queue (defaultJobOptions):  *)
(* an attempt that throws is counted, the job waits out its backoff and is *)
(* taken again, and after the last attempt it stays in the failed set      *)
(***************************************************************************)
Attempts == 5

BackoffDelay == 10000

RECURSIVE Pow2(_)
Pow2(n) == IF n = 0 THEN 1 ELSE 2 * Pow2(n - 1)

FixedBackoff(made) == BackoffDelay

\* backoff: { type: "exponential", delay: 10000 }: the delay after the made-th
\* attempt failed
ExponentialBackoff(made) == BackoffDelay * Pow2(made - 1)

AttemptsMadeOf(job) ==
    IF job.context \in DOMAIN attemptsMade THEN attemptsMade[job.context].made ELSE 0

\* the job is in the failed set: its last attempt failed
Failed(job) == AttemptsMadeOf(job) = Attempts

\* the job waits for its backoff to elapse
Delayed(job) ==
    /\ job \in byMakerQueue.held \ byMakerQueue.waiting
    /\ ~\E rec \in active : rec.job = job
    /\ job.context \in DOMAIN attemptsMade
    /\ attemptsMade[job.context].delay > 0

\* the handler throws, the catch rethrows and the queue counts the attempt: below
\* attempts: 5 the job is delayed by its backoff, at 5 it is moved to failed
MakerAttemptFails(rec) ==
    /\ rec \in active
    /\ active' = active \ {rec}
    /\ LET made == AttemptsMadeOf(rec.job) + 1 IN
       attemptsMade' =
           (rec.job.context :>
               [made |-> made,
                delay |-> IF made < Attempts THEN ExponentialBackoff(made) ELSE 0])
           @@ attemptsMade
    /\ UNCHANGED <<tokenTables, orders, wyvernEvents, nftTables, ftTables, byHashQueue,
                   byMakerQueue, fillsQueue, history>>
    /\ UNCHANGED <<syncing, proxies>>

\* the QueueScheduler moves a delayed job back to waiting when its delay is over
BackoffElapsed(job) ==
    /\ Delayed(job)
    /\ byMakerQueue' = QueueRetry(byMakerQueue, job)
    /\ attemptsMade' = [attemptsMade EXCEPT ![job.context].delay = 0]
    /\ UNCHANGED <<tokenTables, orders, wyvernEvents, nftTables, ftTables, byHashQueue,
                   fillsQueue, active, history>>
    /\ UNCHANGED <<syncing, proxies>>

NextJ ==
    \/ \E logs \in SeqsUpTo(LogsP, MaxBatch) : SyncCallbackErc20(logs, FALSE)
    \/ \E job \in byMakerQueue.waiting : MakerRead(job)
    \/ \E rec \in active : MakerWrite(rec)
    \/ \E rec \in active : MakerAttemptFails(rec)
    \/ \E job \in byMakerQueue.held : BackoffElapsed(job)

SpecJ == InitW /\ [][NextJ]_vars

(***************************************************************************)
(* SpecH: batches of the NFT contract are handed over again while the jobs *)
(* of their first delivery are waiting, run, are delayed, have finished or *)
(* have failed for good                                                    *)
(***************************************************************************)
NextH ==
    \/ \E logs \in SeqsUpTo(LogsIN, MaxBatch) : SyncCallbackErc1155(logs, FALSE)
    \/ \E job \in byMakerQueue.waiting : MakerRead(job)
    \/ \E rec \in active : MakerWrite(rec)
    \/ \E rec \in active : MakerAttemptFails(rec)
    \/ \E job \in byMakerQueue.held : BackoffElapsed(job)

SpecH == InitW /\ [][NextH]_vars

(***************************************************************************)
(* SpecZ: the syncCallbacks taken one awaited call at a time, several      *)
(* callbacks under way at once and the workers running beside them         *)
(***************************************************************************)
MaxSyncing == 2     \* syncCallbacks under way at once

LogsZW == {CancelLog("B1"), MatchLog("B1")}

LogsZN ==
    {TransferLog("m1", "m2", "t1", "B1", "y1", 0),
     ApprovalLog("m1", "p1", FALSE, 1, "B1", "y3", 2)}

\* a callback that hands its triggers to the queues before it writes its rows
StepsOfQueuesFirst(contract) ==
    IF contract = "wyvern-v2.3"
    THEN <<"addToOrdersUpdateByHashQueue", "addToFillsHandleQueue",
           "addToOrdersUpdateByHashQueue bulk", "addBulkCancelEvents", "addCancelEvents",
           "addFillEvents">>
    ELSE <<"addToOrdersUpdateByMakerQueue", "addNftApprovalEvents",
           "addNftTransferEvents">>

\* the calls a syncCallback awaits after the loop over its logs, in source order
StepsOf(contract) ==
    IF contract = "wyvern-v2.3"
    THEN <<"addBulkCancelEvents", "addCancelEvents", "addFillEvents",
           "addToOrdersUpdateByHashQueue", "addToFillsHandleQueue",
           "addToOrdersUpdateByHashQueue bulk">>
    ELSE <<"addNftApprovalEvents", "addNftTransferEvents",
           "addToOrdersUpdateByMakerQueue">>

\* the call the callback awaits next
StepOf(rec) == StepsOf(rec.contract)[rec.step]

\* the event source calls syncCallback(logs, backfill): the loop over the logs
\* touches no table and no queue
SyncBegin(contract, logs, backfill) ==
    /\ Cardinality(syncing) < MaxSyncing
    /\ syncing' = syncing \cup
           {[contract |-> contract, logs |-> logs, backfill |-> backfill, step |-> 1,
             bulkCancelled |-> {}]}
    /\ UNCHANGED <<tokenTables, orders, wyvernEvents, nftTables, ftTables, byHashQueue,
                   byMakerQueue, fillsQueue, active, attemptsMade, proxies, history>>

\* the callback's next awaited call runs and returns, or throws and ends the callback
SyncStep(rec) ==
    LET step == StepOf(rec)
        parsed == Parsed(rec.logs)
        enqueues == ~rec.backfill /\ AcceptOrders
        bulk == AddBulkCancelEvents(rec.contract, SelectSeq(parsed, IsNonceIncremented))
        threw == step = "addBulkCancelEvents" /\ bulk.threw
        inserted == NewNftTransferRows(nft_transfer_events,
                                       SelectSeq(parsed, IsTransferSingle))
        fillEvents == SelectSeq(parsed, IsOrdersMatched)
        after == IF step = "addBulkCancelEvents"
                 THEN [rec EXCEPT !.bulkCancelled = bulk.hashes] ELSE rec
    IN
    /\ rec \in syncing
    /\ syncing' = IF threw \/ rec.step = Len(StepsOf(rec.contract))
                  THEN syncing \ {rec}
                  ELSE (syncing \ {rec}) \cup {[after EXCEPT !.step = @ + 1]}
    /\ bulk_cancel_events' =
           IF step = "addBulkCancelEvents" /\ ~threw THEN bulk.events
           ELSE bulk_cancel_events
    /\ orders' = IF step = "addBulkCancelEvents" /\ ~threw THEN bulk.orders ELSE orders
    /\ cancel_events' =
           IF step = "addCancelEvents"
           THEN AddCancelEvents(cancel_events, SelectSeq(parsed, IsOrderCancelled))
           ELSE cancel_events
    /\ fill_events' =
           IF step = "addFillEvents" THEN AddFillEvents(fill_events, fillEvents)
           ELSE fill_events
    /\ byHashQueue' =
           IF step = "addToOrdersUpdateByHashQueue" /\ enqueues
           THEN AddToOrdersUpdateByHashQueue(byHashQueue, HashInfos(parsed))
           ELSE IF step = "addToOrdersUpdateByHashQueue bulk" /\ enqueues
           THEN AddToOrdersUpdateByHashQueue(byHashQueue,
                                             BulkCancelledInfos(rec.bulkCancelled))
           ELSE byHashQueue
    /\ fillsQueue' =
           IF step = "addToFillsHandleQueue" /\ enqueues
           THEN AddToFillsHandleQueue(fillsQueue,
                                      [i \in DOMAIN fillEvents |-> FillInfo(fillEvents[i])])
           ELSE fillsQueue
    /\ nft_approval_events' =
           IF step = "addNftApprovalEvents"
           THEN AddNftApprovalEvents(nft_approval_events,
                                     SelectSeq(parsed, IsApprovalForAll))
           ELSE nft_approval_events
    /\ nft_transfer_events' =
           IF step = "addNftTransferEvents" THEN nft_transfer_events \cup inserted
           ELSE nft_transfer_events
    /\ nft_balances' =
           IF step = "addNftTransferEvents" THEN AppliedTransfers(nft_balances, inserted, 1)
           ELSE nft_balances
    /\ byMakerQueue' =
           IF step = "addToOrdersUpdateByMakerQueue" /\ enqueues
           THEN AddToOrdersUpdateByMakerQueue(byMakerQueue, MakerInfos(parsed))
           ELSE byMakerQueue
    /\ UNCHANGED <<tokenTables, ftTables, active, attemptsMade, proxies, history>>

NextZ ==
    \/ \E logs \in SeqsUpTo(LogsZW, MaxBatch), backfill \in BOOLEAN :
          SyncBegin("wyvern-v2.3", logs, backfill)
    \/ \E logs \in SeqsUpTo(LogsZN, MaxBatch) : SyncBegin("erc1155", logs, FALSE)
    \/ \E rec \in syncing : SyncStep(rec)
    \/ \E job \in byHashQueue.waiting : HashUpdateJob(job)

SpecZ == InitW /\ [][NextZ]_vars

(***************************************************************************)
(* SpecC: getProxy(owner) of the wyvern-v2.3 utilities, called for owners  *)
(* with and without a registered proxy, several calls under way at once,   *)
(* each taken one awaited call at a time                                   *)
(***************************************************************************)
MaxCalls == 3       \* calls of getProxy in a run

Undefined == "undefined"

Owners == {"m1", "m2"}

\* ProxyRegistry.getProxy(owner) on chain: m1 has registered the proxy p1, m2 none
RegisteredProxy(owner) == IF owner = "m1" THEN "p1" ELSE AddressZero

\* a caller calls getProxy(owner); the call first awaits its select
GetProxy(id, owner) ==
    /\ ~\E c \in getProxyCalls : c.id = id
    /\ getProxyCalls' = getProxyCalls \cup
           {[id |-> id, owner |-> owner, step |-> "select", proxy |-> Undefined]}
    /\ UNCHANGED <<tokenTables, orders, wyvernEvents, nftTables, ftTables, byHashQueue,
                   byMakerQueue, fillsQueue, active, attemptsMade, syncing,
                   wyvern_proxies, history>>

Returned(c, proxy) == [c EXCEPT !.step = "returned", !.proxy = proxy]

\* the call's next awaited call runs: the select, the registry, the insert (which
\* throws on wyvern_proxies_pk when the owner has a row; the catch returns undefined)
GetProxyStep(c) ==
    /\ c \in getProxyCalls
    /\ c.step # "returned"
    /\ LET after ==
              CASE c.step = "select" ->
                       IF c.owner \in DOMAIN wyvern_proxies
                       THEN Returned(c, wyvern_proxies[c.owner])
                       ELSE [c EXCEPT !.step = "registry"]
                [] c.step = "registry" ->
                       IF RegisteredProxy(c.owner) = AddressZero
                       THEN Returned(c, Undefined)
                       ELSE [c EXCEPT !.step = "insert", !.proxy = RegisteredProxy(c.owner)]
                [] c.step = "insert" ->
                       IF c.owner \in DOMAIN wyvern_proxies
                       THEN Returned(c, Undefined)
                       ELSE Returned(c, c.proxy)
       IN
       /\ getProxyCalls' = (getProxyCalls \ {c}) \cup {after}
       /\ wyvern_proxies' =
              IF c.step = "insert" /\ c.owner \notin DOMAIN wyvern_proxies
              THEN (c.owner :> c.proxy) @@ wyvern_proxies
              ELSE wyvern_proxies
    /\ UNCHANGED <<tokenTables, orders, wyvernEvents, nftTables, ftTables, byHashQueue,
                   byMakerQueue, fillsQueue, active, attemptsMade, syncing, history>>

NextC ==
    \/ \E id \in 1..MaxCalls, owner \in Owners : GetProxy(id, owner)
    \/ \E c \in getProxyCalls : GetProxyStep(c)

SpecC == InitW /\ [][NextC]_vars

(***************************************************************************)
(* Properties                                                              *)
(***************************************************************************)
\* C2 (as stated): once every queued job has been executed, an order whose hash
\* has a cancel-event row is cancelled, whether it was saved before or after the
\* OrderCancelled log was ingested.
C2_CancelledWhenQuiescent ==
    Quiescent =>
        \A h \in DOMAIN orders : HasCancel(h) => orders[h].status = "cancelled"

\* C3 (as stated): once every queued job has been executed, an order that a
\* fill-event row names as its buy or sell hash is filled.
C3_FilledWhenQuiescent ==
    Quiescent =>
        \A h \in DOMAIN orders : HasFill(h) => orders[h].status = "filled"

\* the orders NonceIncremented(maker, newNonce) cancels
BelowNonce(maker, newNonce) ==
    {h \in DOMAIN orders :
        /\ orders[h].kind = "wyvern-v2.3"
        /\ orders[h].maker = maker
        /\ orders[h].nonce < newNonce}

\* C1 (as stated): when the syncCallback of a batch with NonceIncremented(maker,
\* newNonce) has ended, no wyvern-v2.3 order of that maker with a nonce below
\* newNonce is left fillable ('valid') or no-balance.
C1_BulkCancelApplied ==
    lastCall.op = "syncCallback" =>
        \A e \in lastCall.bulk : \A h \in BelowNonce(e[1], e[2]) :
            orders[h].status \notin {"fillable", "no-balance"}

BackedStatus(row) == IF HasBalance(row) THEN "fillable" ELSE "no-balance"

\* the status of an order after the delivered logs have been played alone, one
\* log a batch, and their jobs have run
PlayedAlone(h) ==
    LET logs == {d[1] : d \in delivered} IN
    IF \E l \in logs : l.topic = "OrdersMatched" /\ h \in {l.buyHash, l.sellHash}
    THEN "filled"
    ELSE IF \/ \E l \in logs : l.topic = "OrderCancelled" /\ l.hash = h
            \/ /\ ~BulkCancelStatementFails
               /\ \E l \in logs : /\ l.topic = "NonceIncremented"
                                   /\ h \in BelowNonce(l.maker, l.newNonce)
    THEN "cancelled"
    ELSE BackedStatus(orders[h])

\* C8 (as stated): after the logs L were played, fixCallback(B) was called, the
\* replacement was played and the hash-updates of the orders touched by the
\* removed events were run, the orders are in the state that playing L' alone
\* (L with the events of B replaced) gives.
C8_ReorgEquivalent ==
    (lastCall.op = "rechecked" /\ Quiescent) =>
        \A h \in DOMAIN orders : orders[h].status = PlayedAlone(h)

\* C9 (as stated): after fixCallback(B) took back the OrderCancelled event that
\* had cancelled an order, and once every queued job has been executed, the
\* order is fillable again when nothing else disqualifies it.
C9_RestoredAfterFix ==
    (lastCall.op = "fixCallback" /\ Quiescent) =>
        \A h \in lastCall.touched \cap DOMAIN orders :
            (~HasCancel(h) /\ ~HasFill(h) /\ ~IsBulkCancelled(orders[h])
                 /\ HasBalance(orders[h])) =>
                orders[h].status = "fillable"

\* C4 (as stated): in every reachable state a fillable sell order has a maker
\* whose recorded balance of the listed token covers quantity_remaining, and is
\* approved.
C4_FillableSellBacked ==
    \A h \in DOMAIN orders :
        (orders[h].side = "sell" /\ orders[h].status = "fillable") =>
            /\ NftBalance(orders[h].maker, orders[h].token_id) >= orders[h].quantity_remaining
            /\ orders[h].approval_status = "approved"

\* the job of rec writes, and what it read is what it would read now
WritesCurrent(rec, reads) == MakerWrite(rec) /\ rec.rows \in reads

\* C4 (amended): when a sell-balance job writes what it read and the read is
\* still current, every order it read (escrowed kinds apart) that is fillable
\* afterwards has a maker whose recorded balance of the token covers
\* quantity_remaining; when a sell-approval job does, every order it read that
\* is approved afterwards has a latest ApprovalForAll event that approves.
C4_SellJobBacked ==
    [][\A rec \in active :
         /\ (rec.job.kind = "sell-balance"
                 /\ WritesCurrent(rec, {SellBalanceRows(rec.job)})) =>
                \A r \in rec.rows :
                    (r.kind \notin Escrowed /\ orders'[r.id].status = "fillable") =>
                        /\ <<rec.job.maker, rec.job.tokenId>> \in DOMAIN nft_balances
                        /\ nft_balances[<<rec.job.maker, rec.job.tokenId>>]
                               >= orders'[r.id].quantity_remaining
         /\ (rec.job.kind = "sell-approval"
                 /\ WritesCurrent(rec, SellApprovalReads(rec.job))) =>
                \A r \in rec.rows :
                    (r.kind \notin Escrowed /\ orders'[r.id].approval_status = "approved") =>
                        \E e \in LatestApprovalRows(orders[r.id]) : e.approved
      ]_vars

\* the maker-update job of the log with this context has written
JobDone(context) ==
    /\ \E j \in byMakerQueue.held : j.context = context
    /\ ~\E rec \in active : rec.job.context = context

\* C4 witness: h1 went no-balance when t1 left m1 and is fillable again after
\* the job of the transfer that brought t1 back, and it is approved again
\* after the job of the second ApprovalForAll
C4_Witness ==
    /\ JobDone("y1-0") /\ JobDone("y2-1") /\ JobDone("y3-2") /\ JobDone("y4-3")
    /\ \E j \in byHashQueue.held : j.context = "y2-1-h1"
    /\ \E j \in byHashQueue.held : j.context = "y4-3-h1"
    /\ "h1" \in DOMAIN orders
    /\ orders["h1"].status = "fillable"
    /\ orders["h1"].approval_status = "approved"
    /\ NftBalance("m1", "t1") = 1

projection == <<orders, wyvernEvents, nftTables, ftTables, byHashQueue, byMakerQueue,
                fillsQueue, active>>

\* C7: a syncCallback for a batch that was handed over before (with the same
\* backfill flag) adds no event row, changes no balance and no order and
\* enqueues no job, so the orders end as after the first delivery.
C7_RedeliveryNoOp ==
    [][\A backfill \in BOOLEAN :
         /\ \A logs \in SeqsUpTo(LogsIW, MaxBatch) :
                (Again(logs, backfill) /\ SyncCallbackWyvern(logs, backfill)) =>
                    UNCHANGED projection
         /\ \A logs \in SeqsUpTo(LogsIN, MaxBatch) :
                (Again(logs, backfill) /\ SyncCallbackErc1155(logs, backfill)) =>
                    UNCHANGED projection
      ]_vars

\* C7 witness: a batch was handed over again after the jobs of its first
\* delivery had run: the cancel, transfer and approval rows are recorded once
\* and no job is waiting
C7_Witness ==
    /\ lastCall.op = "syncCallback" /\ lastCall.again
    /\ Cardinality(cancel_events) = 1
    /\ Cardinality(nft_transfer_events) = 1
    /\ Cardinality(nft_approval_events) = 1
    /\ NftBalance("m1", "t1") = 0
    /\ NftBalance("m2", "t1") = 1
    /\ JobDone("y1-0") /\ JobDone("y3-2")
    /\ \E j \in byHashQueue.held : j.context = "x1-0"
    /\ Quiescent

\* the job was enqueued by saveOrders or by a syncCallback
IngestContext(context) ==
    context = "save" \/ \E d \in delivered : Context(d[1]) = context

\* the order as stored is among the orders the SELECT of the maker-update job
\* is about
Selects(job, row) ==
    /\ row.maker = job.maker
    /\ CASE job.kind = "sell-balance" ->
                /\ row.side = "sell"
                /\ row.contract = job.contract
                /\ row.token_id = job.tokenId
                /\ <<job.maker, job.tokenId>> \in DOMAIN nft_balances
         [] job.kind = "sell-approval" ->
                /\ row.side = "sell"
                /\ row.contract = job.contract
                /\ row.conduit = job.operator
                /\ LatestApprovalRows(row) # {}
         [] job.kind = "buy-balance" ->
                /\ row.side = "buy"
                /\ <<job.maker, job.contract>> \in DOMAIN ft_balances
         [] OTHER -> FALSE

\* a job enqueued at ingestion is about the order
Examined(h) ==
    \/ \E j \in byHashQueue.held : j.hash = h /\ IngestContext(j.context)
    \/ \E j \in byMakerQueue.held : Selects(j, InsertedRow(h))

\* the timestamps of the triggers of the given kinds whose job is about the order
TriggerTimes(row, kinds) ==
    {TxTimestamp(j.context) :
        j \in {x \in byMakerQueue.held : x.kind \in kinds /\ Selects(x, row)}}

Earliest(S) == CHOOSE t \in S : \A u \in S : t <= u
Latest(S) == CHOOSE t \in S : \A u \in S : u <= t

\* the expiration the maker-update jobs leave when they run one at a time in
\* the order of their logs: the first balance job that finds the balance
\* short and the first approval job that finds the approval revoked write
\* their timestamp, the later of the two stays
SequentialExpiration(row) ==
    LET bal == TriggerTimes(row, {"sell-balance", "buy-balance"})
        app == TriggerTimes(row, {"sell-approval"})
        written == (IF ~HasBalance(row) /\ bal # {} THEN {Earliest(bal)} ELSE {})
                       \cup (IF DerivedApproval(row) = "no-approval" /\ app # {}
                              THEN {Earliest(app)} ELSE {})
    IN IF written = {} THEN row.expiration ELSE Latest(written)

\* the stored order with the status and approval the recorded events, balances
\* and approvals give it, and the expiration of the jobs run in log order
Rederived(h) ==
    [InsertedRow(h) EXCEPT !.status = DerivedStatus(h, InsertedRow(h)),
                           !.approval_status = DerivedApproval(InsertedRow(h)),
                           !.expiration = SequentialExpiration(InsertedRow(h))]

\* C10: once the workers have run every job of a fixed ingestion, whatever the
\* order of the jobs and the interleaving of the reads and writes of the
\* maker-update jobs, each order is what the ingested state determines: as
\* stored if no job enqueued at ingestion is about it, else with the status
\* and approval re-derived from the recorded events, balances and approvals
\* and the expiration the jobs give when run one at a time in log order.
C10_OrderIndependent ==
    (~Ingesting /\ Quiescent) =>
        \A h \in DOMAIN orders :
            orders[h] = IF Examined(h) THEN Rederived(h) ELSE InsertedRow(h)

\* the orders tables a complete execution of the job from this state may leave
Executed(job) ==
    {MakerWritten([job |-> job, rows |-> rows, conduits |-> {}]) :
        rows \in MakerReads(job)}

\* C11: when a maker-update job has written what it read from the current
\* state (its complete execution, or the part up to its write of an attempt
\* that fails after it), executing the job again with the same job data and
\* no event in between leaves the orders table as that execution left it.
C11_RerunIdempotent ==
    [][\A rec \in active :
          ((MakerWrite(rec) \/ MakerFailAfterWrite(rec)) /\ rec.rows \in MakerReads(rec.job))
              => Executed(rec.job)' = {orders'}]_vars

\* C12: the jobs added to the maker-update queue with one context while none
\* of them has started are one waiting job, whatever their number and their
\* data, and a waiting job has not been executed before: the context is
\* executed once.
C12_OneExecutionPerContext ==
    /\ \A j1, j2 \in byMakerQueue.waiting : j1.context = j2.context => j1 = j2
    /\ \A j \in byMakerQueue.waiting :
           j.context \notin {k.context : k \in byMakerQueue.held}

\* the transfer from m1 to m2 added a job of each of them with the context
\* y1-0, and the one job of that context has been executed
C12_Witness ==
    /\ \E e \in nft_transfer_events : e.tx_hash = "y1" /\ e.from = "m1" /\ e.to = "m2"
    /\ Cardinality({j \in byMakerQueue.held : j.context = "y1-0"}) = 1
    /\ ~\E j \in byMakerQueue.waiting : j.context = "y1-0"
    /\ active = {}

\* C13: for the sell order h1 of m1 on t1, once the transfer of t1 away from
\* m1 is ingested and the jobs it caused have run, h1 is no-balance and its
\* expiration is the timestamp of that transfer; once the transfer of t1 back
\* to m1 is ingested too and the jobs it caused have run, h1 is fillable and
\* its expiration is the end of its validity.
C13_TransferLifecycle ==
    Quiescent =>
        /\ (1 \in IngestedL /\ 3 \notin IngestedL) =>
               /\ orders["h1"].status = "no-balance"
               /\ orders["h1"].expiration = TxTimestamp("y1-0")
        /\ (1 \in IngestedL /\ 3 \in IngestedL) =>
               /\ orders["h1"].status = "fillable"
               /\ orders["h1"].expiration = orders["h1"].valid_until

\* the recorded balance of a token, no row counting as zero
RecordedFtBalance(owner, contract) ==
    IF <<owner, contract>> \in DOMAIN ft_balances THEN ft_balances[<<owner, contract>>] ELSE 0

\* C14: when a buy-balance job writes what it read from the current state,
\* every live (fillable or no-balance) buy order of its maker that pays in the
\* ERC20 contract of the job is fillable afterwards iff the recorded balance of
\* that contract is at least the price and no-balance otherwise, and every
\* other order, the buy orders of the maker that pay in another token
\* included, keeps its status.
C14_BuyBalanceScope ==
    [][\A rec \in active :
          (rec.job.kind = "buy-balance" /\ WritesCurrent(rec, {BuyBalanceRows(rec.job)})) =>
              \A h \in DOMAIN orders :
                  orders'[h].status =
                      IF /\ orders[h].maker = rec.job.maker
                         /\ orders[h].side = "buy"
                         /\ orders[h].status \in LiveStatuses
                         /\ PaymentToken(h) = rec.job.contract
                      THEN IF RecordedFtBalance(rec.job.maker, rec.job.contract)
                                  >= orders[h].price
                           THEN "fillable" ELSE "no-balance"
                      ELSE orders[h].status]_vars

C16_ResaveKeepsRow ==
    [][\A hs \in SeqsUpTo(SellHashes, MaxBatch), now \in StartTime..MaxNow :
          (NotBefore(now) /\ SaveOrdersAt(hs, now)) =>
              \A h \in Range(hs) \cap DOMAIN orders : orders'[h] = orders[h]]_vars

\* C17: the value of a saved buy order is its price less the truncated
\* quotient of price * takerRelayerFee by 10000, the product taken exactly
\* whatever its size, and lies between 0 and the price; the value of a saved
\* sell order is its price.
C17_OrderValue ==
    \A p \in DOMAIN orders :
        IF p.side = "buy"
        THEN /\ 10000 * (p.basePrice - orders[p].value) <= p.basePrice * p.takerRelayerFee
             /\ p.basePrice * p.takerRelayerFee < 10000 * (p.basePrice - orders[p].value + 1)
             /\ orders[p].value \in 0..p.basePrice
        ELSE orders[p].value = p.basePrice

\* a buy order of the largest price with a fee of 2.5 per cent is saved: the
\* product exceeds the width of the price and the fee is 6 (255 * 250 div 10000)
C17_Witness ==
    \E p \in DOMAIN orders :
        /\ p.side = "buy" /\ p.basePrice = 2 ^ WidthN - 1 /\ p.takerRelayerFee = 250
        /\ p.basePrice * p.takerRelayerFee >= 2 ^ WidthN
        /\ orders[p].value = p.basePrice - 6

\* the source the claim names for an order
ClaimedSource(p, source) ==
    IF p.feeRecipient = OpenSea
    THEN [id |-> OpenSea, bps |-> 250]
    ELSE [id |-> IF source = NoField THEN AddressZero ELSE source, bps |-> FeeBps(p)]

\* C18 (as stated): the row saveOrders writes has the source of the claim,
\* and its royalty_info is one entry of bps = max(makerRelayerFee,
\* takerRelayerFee) - source_bps exactly when that difference is positive.
C18_FeeAttribution ==
    [][\A p \in ParamsN, source \in {NoField, "s1"}, royalty \in {NoField, "r1"} :
          SaveOrderInfo(p, source, royalty) =>
              /\ orders'[p].source_id = ClaimedSource(p, source).id
              /\ orders'[p].source_bps = ClaimedSource(p, source).bps
              /\ (Len(orders'[p].royalty_info) = 1) <=> (FeeBps(p) - orders'[p].source_bps > 0)
              /\ \A i \in DOMAIN orders'[p].royalty_info :
                     orders'[p].royalty_info[i].bps = FeeBps(p) - orders'[p].source_bps]_vars

\* C18 (amended): as C18, with royalty_info one entry, for the royalty
\* recipient the database returns for the contract of the order, exactly when
\* the difference is positive and the database returns a collection for the
\* contract; without one royalty_info is not set.
C18_FeeAttributionKnownCollection ==
    [][\A p \in ParamsN, source \in {NoField, "s1"}, royalty \in {NoField, "r1"} :
          SaveOrderInfo(p, source, royalty) =>
              /\ orders'[p].source_id = ClaimedSource(p, source).id
              /\ orders'[p].source_bps = ClaimedSource(p, source).bps
              /\ orders'[p].royalty_info =
                     IF royalty # NoField /\ FeeBps(p) - orders'[p].source_bps > 0
                     THEN <<[recipient |-> royalty,
                             bps |-> FeeBps(p) - orders'[p].source_bps]>>
                     ELSE <<>>]_vars

\* a sell order with the fee recipient of OpenSea and fees of 500 and 500 is
\* saved: source_bps is 250 and the royalty recipient r1 gets the other 250
C18_Witness ==
    \E p \in DOMAIN orders :
        /\ p.feeRecipient = OpenSea /\ p.makerRelayerFee = 500 /\ p.takerRelayerFee = 500
        /\ p.side = "sell"
        /\ orders[p].source_id = OpenSea /\ orders[p].source_bps = 250
        /\ orders[p].royalty_info = <<[recipient |-> "r1", bps |-> 250]>>

\* the grounds of the claim for refusing a token-list order
RefusedByClaim(h, attribute) ==
    /\ OrderMetadata(h).kind = "attribute"
    /\ \/ attribute = NoAttribute
       \/ AttributeTokens(attribute) = {}
       \/ \E a \in AttributeTokens(attribute) : a.contract # OrderMetadata(h).contract
       \/ MerkleRoot({a.token_id : a \in AttributeTokens(attribute)})
              # OrderMetadata(h).merkleRoot

\* C19: a saveOrders call returns every token-list order that comes without an
\* attribute, whose attribute matches no token, whose matching tokens are not
\* all on its contract or whose Merkle root differs from the root of the
\* matching tokens as invalid with the reason "Order has no matching token
\* set", and writes no orders row, no token_sets row and no
\* token_sets_tokens row for it (an order that comes twice in the call is
\* looked at when both are refused).
C19_ListOrderRefused ==
    [][\A hs \in SeqsUpTo(HashesT, MaxBatch) : \A attrs \in [DOMAIN hs -> AttributesT] :
          SaveOrdersWith(hs, attrs, StartTime) =>
              \A i \in DOMAIN hs :
                  (\A k \in DOMAIN hs : hs[k] = hs[i] => RefusedByClaim(hs[k], attrs[k])) =>
                      /\ <<hs[i], "Order has no matching token set">> \in lastCall'.invalid
                      /\ hs[i] \in DOMAIN orders' =>
                             hs[i] \in DOMAIN orders /\ orders'[hs[i]] = orders[hs[i]]
                      /\ \A r \in token_sets' \ token_sets : r.id # TokenSetIdOf(hs[i])
                      /\ \A r \in token_sets_tokens' \ token_sets_tokens :
                             r.token_set_id # TokenSetIdOf(hs[i])]_vars

\* the list order a1 (root of t1 alone) was refused while t1 and t2 have the
\* attribute, and nothing is stored for it
C19_Witness ==
    /\ lastCall.op = "saveOrders"
    /\ <<"a1", "Order has no matching token set">> \in lastCall.invalid
    /\ {a.token_id : a \in AttributeTokens(Attribute("c1"))} = {"t1", "t2"}
    /\ "a1" \notin DOMAIN orders
    /\ ~\E r \in token_sets : r.id = TokenSetIdOf("a1")

\* the tokens that match the definition of a token set now
Matching(id) ==
    CASE id.kind = "token" -> {<<id.contract, id.tokenId>>}
      [] id.kind = "contract" ->
            {<<t.contract, t.token_id>> :
                t \in {x \in tokens : \E c \in Collections :
                           c.token_set_id = id /\ x.collection_id = c.id}}
      [] id.kind = "list" ->
            UNION {{<<a.contract, a.token_id>> :
                       a \in AttributeTokens([collection |-> r.collection_id,
                                              key |-> r.attribute_key,
                                              value |-> r.attribute_value])} :
                     r \in {x \in token_sets : x.id = id}}
      [] OTHER -> {}

\* C20: token_sets_tokens holds every token that matches the definition of
\* the token set of a saved order, the tokens that joined after the members
\* of the set were first written included.
C20_MembersComplete ==
    \A h \in DOMAIN orders :
        \A t \in Matching(orders[h].token_set_id) :
            \E r \in token_sets_tokens :
                /\ r.token_set_id = orders[h].token_set_id
                /\ r.contract = t[1]
                /\ r.token_id = t[2]

\* C21: no step removes a row from orders: an order hash that is stored is
\* stored after every operation (saveOrders, syncCallback with its bulk
\* cancel, fixCallback, the maker-update, hash-update and fill jobs), also when
\* its order is cancelled or filled.
C21_OrdersNeverDeleted ==
    [][DOMAIN orders \subseteq DOMAIN orders']_vars

\* h1 got cancelled and h3 filled, the block of their events was taken back
\* and both are stored
C21_Witness ==
    /\ lastCall.op = "fixCallback"
    /\ {"h1", "h3"} \subseteq DOMAIN orders
    /\ orders["h1"].status = "cancelled"
    /\ orders["h3"].status = "filled"

\* C22 (as stated): the step builders answer with an {error} and no steps,
\* and do not fail: get-cancel with "No matching order" when no order of the
\* hash and maker is in a live status; get-sell with "No matching order" when
\* there is no best order, "No ownership" when the taker does not own the
\* token of an erc721/erc1155 contract, "Unknown contract" when the target is
\* not indexed as erc721 or erc1155; get-bid with "Not enough balance" when
\* the WETH plus ETH balance of the maker is below the price.
C22_StepBuilderErrors ==
    /\ lastCall.op = "get-cancel" =>
           (CancelQuery(lastCall.request[1], lastCall.request[2]) = {} =>
                lastCall.response = ErrorResponse("No matching order"))
    /\ lastCall.op = "get-sell" =>
           LET bestOrder == lastCall.request[1]
               kinds == lastCall.request[2]
               owns == lastCall.request[3]
           IN /\ bestOrder = NoOrder => lastCall.response = ErrorResponse("No matching order")
              /\ (bestOrder # NoOrder /\ kinds \cap {"erc721", "erc1155"} = {}) =>
                     lastCall.response = ErrorResponse("Unknown contract")
              /\ (bestOrder # NoOrder /\ kinds \cap {"erc721", "erc1155"} # {} /\ ~owns) =>
                     lastCall.response = ErrorResponse("No ownership")
    /\ lastCall.op = "get-bid" =>
           ((lastCall.request[1] /\ lastCall.request[3] + lastCall.request[4] < lastCall.request[2]) =>
                lastCall.response = ErrorResponse("Not enough balance"))

\* the event tables
EventTables ==
    <<cancel_events, fill_events, bulk_cancel_events, nft_transfer_events,
      nft_approval_events>>

\* C23 (as stated): a fixCallback(B) leaves no row of block hash B in any event
\* table (cancel, fill, bulk-cancel, NFT transfer, NFT approval) and keeps
\* every row of another block hash.
C23_FixDeletesBlock ==
    [][\A b \in Blocks :
          (FixCallbackWyvern(b) \/ FixCallbackErc1155(b)) =>
              \A i \in DOMAIN EventTables :
                  /\ \A r \in EventTables'[i] : r.block_hash # b
                  /\ \A r \in EventTables[i] : r.block_hash # b => r \in EventTables'[i]]_vars

\* the jobs a queue holds, waiting or taken
QueueJobs(q) == q.waiting \cup q.held

\* C24 (as stated): for every OrdersMatched log ingested with backfill = false
\* the hash-update queue holds a job of the log for the buy hash and a job of
\* the log for the sell hash, and the fill queue holds the job of the log; the
\* two hash-update jobs are two jobs, so that each is executed.
C24_MatchJobsEnqueued ==
    \A r \in fill_events :
        LET context == r.tx_hash \o "-" \o ToString(r.log_index) IN
        /\ \E j \in QueueJobs(byHashQueue) : j.context = context /\ j.hash = r.buy_hash
        /\ \E j \in QueueJobs(byHashQueue) : j.context = context /\ j.hash = r.sell_hash
        /\ \E j \in QueueJobs(fillsQueue) :
               j.context = context /\ j.buyHash = r.buy_hash /\ j.sellHash = r.sell_hash

\* C25 (as stated): every order saveOrders stored has a hash-update job of its
\* own in the queue, waiting or executed: the jobs of distinct orders, saved in
\* one call or in successive calls, are distinct jobs.
C25_SaveJobsEnqueued ==
    \A h \in DOMAIN orders :
        \E j \in QueueJobs(byHashQueue) : j \in Range(SaveJobs(<<h>>))

\* C26 (as stated): for every TransferSingle log ingested with backfill = false
\* the maker-update queue holds a sell-balance job of the log for the sender
\* and one for the receiver, on the contract and token of the transfer, each a
\* job of its own that is executed, and it holds no job for the zero address.
C26_TransferJobsEnqueued ==
    /\ \A r \in nft_transfer_events :
           \A who \in {r.from, r.to} \ {AddressZero} :
               \E j \in QueueJobs(byMakerQueue) :
                   j = MakerJob(r.tx_hash \o "-" \o ToString(r.log_index), who,
                                "sell-balance", r.address, r.token_id, NoField, NoField)
    /\ \A j \in QueueJobs(byMakerQueue) : j.maker # AddressZero

LogPersisted(log, backfill, cancels, transfers, approvals, hashJobs, makerJobs) ==
    /\ IsOrderCancelled(log) =>
          /\ CancelRow(log) \in cancels
          /\ ~backfill => \E j \in hashJobs : j.context = Context(log)
    /\ IsTransferSingle(log) =>
          /\ NftTransferRow(log) \in transfers
          /\ ~backfill => \E j \in makerJobs : j.context = Context(log)
    /\ IsApprovalForAll(log) =>
          /\ NftApprovalRow(log) \in approvals
          /\ ~backfill => \E j \in makerJobs : j.context = Context(log)

\* C29: a syncCallback whose batch holds a log that does not decode completes
\* without error, and after it every OrderCancelled, TransferSingle and
\* ApprovalForAll log of the batch that does decode has its event row and a
\* job of its context.
C29_DecodeErrorSkipped ==
    [][/\ \A logs \in SeqsUpTo(LogsUW, MaxBatch) :
             (SyncCallbackWyvern(logs, FALSE) /\ Parsed(logs) # logs) =>
                 /\ ~lastCall'.threw
                 /\ \A log \in Range(Parsed(logs)) :
                       LogPersisted(log, FALSE, cancel_events', nft_transfer_events',
                                    nft_approval_events', QueueJobs(byHashQueue'),
                                    QueueJobs(byMakerQueue'))
       /\ \A logs \in SeqsUpTo(LogsUN, MaxBatch) :
             (SyncCallbackErc1155(logs, FALSE) /\ Parsed(logs) # logs) =>
                 /\ ~lastCall'.threw
                 /\ \A log \in Range(Parsed(logs)) :
                       LogPersisted(log, FALSE, cancel_events', nft_transfer_events',
                                    nft_approval_events', QueueJobs(byHashQueue'),
                                    QueueJobs(byMakerQueue'))]_vars
\* the table that holds the row of the log, after the insert statement of
\* the table is run with the log of the same transaction mined in block bh
AfterRemined(log, bh) ==
    CASE IsOrderCancelled(log) ->
             AddCancelEvents({CancelRow(log)}, <<Remined(log, bh)>>)
      [] IsOrdersMatched(log) ->
             AddFillEvents({FillRow(log)}, <<Remined(log, bh)>>)
      [] IsNonceIncremented(log) ->
             {BulkCancelRow(log)}
                 \cup BulkCancelInserted({BulkCancelRow(log)}, <<Remined(log, bh)>>)
      [] IsApprovalForAll(log) ->
             AddNftApprovalEvents({NftApprovalRow(log)}, <<Remined(log, bh)>>)
      [] IsTransferSingle(log) ->
             {NftTransferRow(log)}
                 \cup NewNftTransferRows({NftTransferRow(log)}, <<Remined(log, bh)>>)

\* C30: for every log handed to a syncCallback and every other block hash,
\* the insert statement of the log's event table, run on a table that holds
\* the row of the log, stores the log of the same txHash and logIndex mined
\* in the other block as a second row.
C30_KeyedByBlockHash ==
    \A d \in delivered : \A bh \in Blocks \ {d[1].blockHash} :
        Cardinality(AfterRemined(d[1], bh)) = 2

\* the statuses a maker-update job must leave alone
FinalStatuses == {"cancelled", "filled", "expired"}

\* C31: the write of a maker-update job leaves the fillability status and the
\* approval status of every order that is cancelled, filled or expired when the
\* write runs as they are, whatever ran between the job's read and its write.
C31_FinalOrdersUntouched ==
    [][\A rec \in active :
          MakerWrite(rec) =>
              \A h \in DOMAIN orders :
                  orders[h].status \in FinalStatuses =>
                      /\ orders'[h].status = orders[h].status
                      /\ orders'[h].approval_status = orders[h].approval_status]_vars

\* an attempt of the job is still to come or under way
Pending(job) == job \in byMakerQueue.waiting \/ \E rec \in active : rec.job = job

\* the hash-update job the maker-update job enqueues for the order
Rechecked(job, h) ==
    [context |-> job.context \o "-" \o h, hash |-> h] \in QueueJobs(byHashQueue)

\* C32: once no attempt of a maker-update job is pending, every order whose
\* status the job wrote has the hash-update job of that maker-update job, also
\* when an attempt failed after its write and the queue ran the job again.
\* Written by a buy-approval job is every buy order whose approval status is
\* no longer the one saveOrders gave it; written by a buy-balance job is every
\* buy order whose fillability status is no longer the one of saveOrders.
C32_WritesRechecked ==
    \A h \in DOMAIN orders :
        /\ orders[h].approval_status # InsertedRow(h).approval_status =>
              \E job \in byMakerQueue.held :
                  /\ job.kind = "buy-approval" /\ job.maker = orders[h].maker
                  /\ job.operator = orders[h].conduit
                  /\ Pending(job) \/ Rechecked(job, h)
        /\ orders[h].status # InsertedRow(h).status =>
              \E job \in byMakerQueue.held :
                  /\ job.kind = "buy-balance" /\ job.maker = orders[h].maker
                  /\ Pending(job) \/ Rechecked(job, h)

\* the job that read rec derives for the order h a status that differs from
\* the stored one and is no-balance or no-approval
BecomesUnderwater(rec, h) ==
    IF rec.job.kind = "buy-approval"
    THEN /\ rec.job.operator # NoField
         /\ h \in BuyApprovalOrders(rec.job)
         /\ BuyApprovalStatus(orders[h], rec.job) = "no-approval"
         /\ orders[h].approval_status # "no-approval"
    ELSE \E r \in rec.rows :
            /\ r.id = h
            /\ r.new_status \in {"no-balance", "no-approval"}
            /\ r.new_status # r.old_status

\* C33: the write of a maker-update job sets an x2y2 order to cancelled exactly
\* when the status the job derives for it changed to no-balance or to
\* no-approval; an x2y2 order whose derived status equals the stored one is
\* not cancelled.
C33_X2Y2CancelledOnChange ==
    [][\A rec \in active :
          MakerWrite(rec) =>
              \A h \in DOMAIN orders :
                  (orders[h].kind = "x2y2" /\ orders[h].status # "cancelled") =>
                      (orders'[h].status = "cancelled" <=> BecomesUnderwater(rec, h))]_vars

\* the ApprovalForAll rows of (contract, owner = maker, operator = conduit) of
\* an order that are the latest by block and, within the block, by log index
DecidingApprovals(row) ==
    LET mine == {r \in nft_approval_events :
                    /\ r.address = row.contract
                    /\ r.owner = row.maker
                    /\ r.operator = row.conduit}
    IN {r \in mine : \A q \in mine :
           q.block < r.block \/ (q.block = r.block /\ q.log_index <= r.log_index)}

\* C34: the status a sell-approval job derives for an order is the one of the
\* latest ApprovalForAll event of (contract, maker, conduit), the event with the
\* highest log index among those of the latest block: approved if it has
\* approved = true, no-approval if not.
C34_LatestApprovalDecides ==
    [][\A job \in byMakerQueue.waiting :
          (job.kind = "sell-approval" /\ MakerRead(job)) =>
              \A rec \in active' \ active : \A r \in rec.rows :
                  \E e \in DecidingApprovals(orders[r.id]) :
                      r.new_status = IF e.approved THEN "approved" ELSE "no-approval"]_vars

\* the distinct conduits, null left out, of the live buy orders of the maker
\* that have the order kind
LiveConduits(maker, orderKind) ==
    {orders[h].conduit : h \in {x \in DOMAIN orders :
        /\ orders[x].maker = maker /\ orders[x].side = "buy"
        /\ orders[x].kind = orderKind /\ orders[x].status \in LiveStatuses}} \ {NoField}

FansOut(job) ==
    job.kind = "buy-approval" /\ job.operator = NoField /\ job.orderKind # NoField

\* C35: a buy-approval job with an orderKind and no operator reads the distinct
\* non-null conduits of the maker's live buy orders of that kind and leaves,
\* for each of them, exactly one buy-approval job in the queue that carries it
\* as operator and carries no orderKind, and adds no other job; a buy-approval
\* job with an operator adds no maker-update job.
C35_FanOutOneLevel ==
    [][/\ \A job \in byMakerQueue.waiting :
             (FansOut(job) /\ MakerRead(job)) =>
                 \A rec \in active' \ active :
                     rec.conduits \ {NoField} = LiveConduits(job.maker, job.orderKind)
       /\ \A rec \in active :
             (FansOut(rec.job) /\ MakerWrite(rec)) =>
                 /\ \A c \in rec.conduits \ {NoField} :
                       \E j \in QueueJobs(byMakerQueue') :
                           /\ {k \in QueueJobs(byMakerQueue') : k.operator = c
                                  /\ k.context \in {rec.job.context,
                                                    rec.job.context \o "-" \o c}} = {j}
                           /\ j.kind = "buy-approval" /\ j.maker = rec.job.maker
                           /\ j.contract = rec.job.contract /\ j.orderKind = NoField
                 /\ \A j \in QueueJobs(byMakerQueue') \ QueueJobs(byMakerQueue) :
                       j.operator \in rec.conduits \ {NoField}
       /\ \A rec \in active :
             (rec.job.kind = "buy-approval" /\ rec.job.operator # NoField
                 /\ MakerWrite(rec)) => byMakerQueue' = byMakerQueue]_vars

\* the job of the wyvern-v2.3 fill has fanned out to two conduits, both jobs
\* have run and nothing is left to run
C35_Witness ==
    /\ LET done == byMakerQueue.held \ byMakerQueue.waiting IN
       /\ \E j \in done : FansOut(j) /\ j.orderKind = "wyvern-v2.3"
       /\ \E j \in done : j.operator = TokenTransferProxy /\ j.orderKind = NoField
       /\ \E j \in done : j.operator = "e1" /\ j.orderKind = NoField
    /\ byMakerQueue.waiting = {} /\ active = {}

\* C36: a maker-update job whose attempts all throw is executed at most five times:
\* after its first four failures it is delayed by 10s, 20s, 40s and 80s and is not
\* waiting meanwhile, after the fifth it is in the failed set, and a job of the
\* failed set is never taken by the worker again
C36_RetryPolicy ==
    [][/\ \A rec \in active :
            MakerAttemptFails(rec) =>
                LET now == attemptsMade'[rec.job.context] IN
                /\ now.made <= 5
                /\ now.made < 5 =>
                      /\ now.delay = <<10000, 20000, 40000, 80000>>[now.made]
                      /\ rec.job \notin byMakerQueue'.waiting
                /\ now.made = 5 =>
                      /\ now.delay = 0
                      /\ rec.job \in byMakerQueue'.held \ byMakerQueue'.waiting
       /\ \A job \in byMakerQueue.held :
            Failed(job) =>
                /\ ~MakerRead(job)
                /\ ~BackoffElapsed(job)
                /\ job \notin byMakerQueue'.waiting
                /\ ~\E rec \in active' : rec.job = job]_vars

\* a job failed five times and is in the failed set, no longer waiting or active
C36_Witness ==
    \E job \in byMakerQueue.held :
        /\ job.context \in DOMAIN attemptsMade
        /\ attemptsMade[job.context].made = 5
        /\ job \notin byMakerQueue.waiting
        /\ ~\E rec \in active : rec.job = job

\* C37: when jobs are added to the maker-update queue, a job whose context is that
\* of a job the queue holds (waiting, taken by the worker, delayed, finished or
\* failed) is ignored: the jobs of that context in the queue stay as they were,
\* none of them becomes waiting, and so the worker only ever takes the one job
\* that was added first under a context.
C37_HeldContextIgnored ==
    /\ [][\A logs \in SeqsUpTo(LogsIN, MaxBatch) :
            SyncCallbackErc1155(logs, FALSE) =>
                \A old \in byMakerQueue.waiting \cup byMakerQueue.held :
                    /\ {j \in byMakerQueue'.waiting : j.context = old.context}
                         = {j \in byMakerQueue.waiting : j.context = old.context}
                    /\ {j \in byMakerQueue'.held : j.context = old.context}
                         = {j \in byMakerQueue.held : j.context = old.context}]_vars
    /\ [](\A j1, j2 \in byMakerQueue.waiting \cup byMakerQueue.held
                        \cup {rec.job : rec \in active} :
             j1.context = j2.context => j1 = j2)

\* a batch handed over before was handed over again when the jobs of both its
\* contexts were held and no longer waiting, one of them failed for good, and
\* nothing is waiting after the call
C37_Witness ==
    /\ lastCall.op = "syncCallback" /\ lastCall.again
    /\ {j.context : j \in byMakerQueue.held} = {"y1-0", "y3-2"}
    /\ \E job \in byMakerQueue.held : Failed(job)
    /\ \E job \in byMakerQueue.held : job.context \notin DOMAIN attemptsMade
    /\ byMakerQueue.waiting = {}
    /\ active = {}

\* the event row of the log is in its table
RowWritten(log) ==
    /\ IsOrderCancelled(log) => CancelRow(log) \in cancel_events
    /\ IsOrdersMatched(log) => FillRow(log) \in fill_events
    /\ IsTransferSingle(log) => NftTransferRow(log) \in nft_transfer_events
    /\ IsApprovalForAll(log) => NftApprovalRow(log) \in nft_approval_events

\* a trigger job of the log is in a queue
Visible(log) ==
    Context(log) \in QueueIds(byHashQueue) \cup QueueIds(fillsQueue)
                        \cup QueueIds(byMakerQueue)

\* C38: when a step of a syncCallback (wyvern-v2.3 or erc1155) makes a trigger job
\* of one of its logs visible in a queue, the event row of every log of its batch
\* has been written before that step; and no trigger job of a log is in a queue
\* while the event row of that log is unwritten.
C38_RowsBeforeJobs ==
    /\ [][\A rec \in syncing :
            SyncStep(rec) =>
                \A log \in Range(Parsed(rec.logs)) :
                    (~Visible(log) /\ Visible(log)') =>
                        \A other \in Range(Parsed(rec.logs)) : RowWritten(other)]_vars
    /\ [](\A log \in LogsZW \cup LogsZN : Visible(log) => RowWritten(log))

\* a callback for a batch of two logs has handed over the hash-update jobs and
\* is about to hand over the fill job while another callback has written none
\* of its rows yet
C38_Witness ==
    \E rec \in syncing :
        /\ rec.contract = "wyvern-v2.3" /\ Len(rec.logs) = 2 /\ ~rec.backfill
        /\ StepOf(rec) = "addToFillsHandleQueue"
        /\ \A log \in Range(rec.logs) : RowWritten(log)
        /\ Visible(CancelLog("B1"))
        /\ \E other \in syncing :
              /\ other.contract = "erc1155" /\ other.step = 1
              /\ \A log \in Range(other.logs) : ~RowWritten(log) /\ ~Visible(log)

C40_ProxyOfRegisteredOwner ==
    \A c \in getProxyCalls :
        c.step = "returned" =>
            /\ RegisteredProxy(c.owner) # AddressZero => c.proxy = RegisteredProxy(c.owner)
            /\ c.proxy = Undefined => RegisteredProxy(c.owner) = AddressZero

====
